---- MODULE Spec2Model ----
(***************************************************************************)
(* Session / layout persistence and pane management of llm-god             *)
(* (src/src/main.ts, src/src/utilities.ts).                                *)
(*                                                                         *)
(* Strings that the code inspects (URLs, provider ids, titles) are         *)
(* sequences of tokens, so that parsing, matching and trimming are         *)
(* computed and not assumed:                                               *)
(*   "https://claude.ai/chats/" is <<"https:","claude","ai","/","chats","/">> *)
(*   ""                         is << >>                                   *)
(* A provider id is a token sequence as well: <<"claude">> for a registry  *)
(* id, <<"lmarena","ai">> for a bare hostname.                             *)
(***************************************************************************)
EXTENDS Integers, Sequences, FiniteSets, TLC

VARIABLES
    phase,                  \* "launch" before app.whenReady, "running" after
    state,                  \* the persisted SessionState document (sessionStore "state")
    views,                  \* main.ts views[]: live panes, left to right
    websites,               \* main.ts websites[]: tracked URL list (relayout divisor)
    detached,               \* views removed from the window whose handle is still referenced
    browserViewsInitialized,
    didFinishLoadPending,   \* the once("did-finish-load") listener of createWindow has not run yet
    sessionLayoutTimer,     \* TRUE iff the debounced layout-save timer is pending
    postSendLayoutTimer,    \* TRUE iff the post-send save timer is pending
    pendingSends,           \* send-prompt handlers suspended on their await
    winW, winH,             \* mainWindow.getContentBounds()
    promptAreaHeight,
    sidebarWidth,
    reservedRight,
    resizeTimeout,          \* what the pending resizeTimeout will run: "none", "resize" or "move"
    sidebarTimers,          \* pending second-pass relayout timers of sidebar-size
    now,                    \* Date.now()
    nextId,                 \* number of session ids allocated so far
    nOpens, nCloses,        \* history: addBrowserView calls / removeBrowserView calls that hit
    lastOp,                 \* the handler that ran last: channel, whether it succeeded, the session it made
    activeChanged,          \* payload of the sessions:active-changed message the last handler sent
    startupNotice,          \* the id the start-up restore will send at did-finish-load
    submitActive,           \* the active session id when the last submit loop reached the panes
    steps                   \* events handled so far

vars == <<phase, state, views, websites, detached, browserViewsInitialized,
          didFinishLoadPending,
          sessionLayoutTimer, postSendLayoutTimer, pendingSends, winW, winH,
          promptAreaHeight, sidebarWidth, reservedRight, resizeTimeout, sidebarTimers,
          now, nextId,
          nOpens, nCloses, lastOp, activeChanged, startupNotice, submitActive, steps>>

\* ------------------------------------------------------------------ bounds
MaxSteps    == 6        \* events handled in one behaviour
MaxSessions == 2        \* session ids allocated in one behaviour
MaxPanes    == 2        \* live panes at a time
MaxSends    == 1        \* send handlers suspended at a time
MaxPaneSteps == 7       \* pane and window events handled in one behaviour
MaxPaneOps  == 3        \* calls of addBrowserView in one behaviour
MaxSidebarTimers == 2   \* second-pass relayout timers pending at a time
MaxStartupSteps == 5    \* start-up events handled in one behaviour
MaxSessionSteps == 5    \* session events handled in one behaviour
MaxClock    == 2        \* Date.now() advances this far
MaxStoreSteps == 4      \* events handled in one behaviour when the store can fail

\* --------------------------------------------------------- program constants
HEADER_HEIGHT == 44
TitleLimit    == 80
InitialSidebarWidth == 280
InitialWinW == 2000
InitialWinH == 1100

\* ------------------------------------------------------------------- URLs
NoId == 0               \* activeId null
NoNotice == 0 - 1        \* no sessions:active-changed message

Url(host, path) == <<"https:">> \o host \o <<"/">> \o path
EmptyUrl == << >>

\* new URL(url): parses iff there is a scheme and a non-empty host
IsUrl(u) == /\ Len(u) >= 2
            /\ u[1] \in {"https:", "http:"}
            /\ u[2] # "/"

\* new URL(url).hostname: the labels between the scheme and the first "/"
HostEnd(u) ==
    IF \E i \in 2..Len(u) : u[i] = "/"
    THEN (CHOOSE i \in 2..Len(u) : u[i] = "/" /\ \A j \in 2..(i-1) : u[j] # "/") - 1
    ELSE Len(u)

Hostname(u) == SubSeq(u, 2, HostEnd(u))

\* /a\.b/i.test(host): the labels of the pattern occur consecutively in host
RegexTest(pat, host) ==
    \E i \in 1..Len(host) :
        /\ i + Len(pat) - 1 <= Len(host)
        /\ SubSeq(host, i, i + Len(pat) - 1) = pat

\* String.prototype.match("name") on a URL: some token of the URL is name
IdMatches(u, name) == \E i \in 1..Len(u) : u[i] = name

inferProviderFromUrl(url) ==
    IF ~IsUrl(url) THEN url
    ELSE LET host == Hostname(url) IN
         IF RegexTest(<<"chatgpt", "com">>, host) \/ RegexTest(<<"chat", "openai", "com">>, host)
         THEN <<"chatgpt">>
         ELSE IF RegexTest(<<"gemini", "google", "com">>, host) THEN <<"gemini">>
         ELSE IF RegexTest(<<"perplexity", "ai">>, host) THEN <<"perplexity">>
         ELSE IF RegexTest(<<"claude", "ai">>, host) THEN <<"claude">>
         ELSE IF RegexTest(<<"grok", "com">>, host) THEN <<"grok">>
         ELSE IF RegexTest(<<"deepseek", "com">>, host) THEN <<"deepseek">>
         ELSE host

RegisteredProviders ==
    { <<"chatgpt">>, <<"gemini">>, <<"perplexity">>, <<"claude">>, <<"grok">>, <<"deepseek">> }

PROVIDER_BASE_URL ==
    [p \in RegisteredProviders |->
        CASE p = <<"chatgpt">>    -> Url(<<"chatgpt", "com">>, << >>)
          [] p = <<"gemini">>     -> Url(<<"gemini", "google", "com">>, << >>)
          [] p = <<"perplexity">> -> Url(<<"www", "perplexity", "ai">>, << >>)
          [] p = <<"claude">>     -> Url(<<"claude", "ai">>, <<"chats", "/">>)
          [] p = <<"grok">>       -> Url(<<"grok", "com">>, << >>)
          [] p = <<"deepseek">>   -> Url(<<"chat", "deepseek", "com">>, << >>)]

\* PROVIDER_BASE_URL[p] || fallback
BaseUrlOr(p, fallback) ==
    IF p \in RegisteredProviders THEN PROVIDER_BASE_URL[p] ELSE fallback

\* main.ts websites initial value
DefaultWebsites ==
    << Url(<<"chatgpt", "com">>, << >>),
       Url(<<"gemini", "google", "com">>, << >>),
       Url(<<"www", "perplexity", "ai">>, << >>) >>

\* ------------------------------------------------------------- pane manager
\* A view is [h, id, url, rect]: h is the object's identity, id the URL it was
\* created with (view.id), url what (webContents.getURL() || view.id) evaluates
\* to, rect the rectangle last given to setBounds.
Rect(x, y, w, h) == [x |-> x, y |-> y, width |-> w, height |-> h]
ZeroRect == Rect(0, 0, 0, 0)

Max(a, b) == IF a >= b THEN a ELSE b
Min(a, b) == IF a <= b THEN a ELSE b

RemoveAt(s, i) == SubSeq(s, 1, i - 1) \o SubSeq(s, i + 1, Len(s))

\* Array.prototype.indexOf / findIndex, 1-based; 0 when absent
IndexOfView(vs, h) ==
    IF \E i \in 1..Len(vs) : vs[i].h = h
    THEN CHOOSE i \in 1..Len(vs) : vs[i].h = h /\ \A j \in 1..(i-1) : vs[j].h # h
    ELSE 0

IndexOfUrl(ws, u) ==
    IF \E i \in 1..Len(ws) : ws[i] = u
    THEN CHOOSE i \in 1..Len(ws) : ws[i] = u /\ \A j \in 1..(i-1) : ws[j] # u
    ELSE 0

\* the pane manager's two lists
PM(vs, ws) == [views |-> vs, websites |-> ws]

\* a handle no live or detached view carries
FreshHandle(vs) ==
    CHOOSE h \in 1..(Len(vs) + Cardinality(detached) + 1) :
        /\ \A i \in 1..Len(vs) : vs[i].h # h
        /\ \A d \in detached : d.h # h

\* utilities.ts addBrowserView
addBrowserView(pm, url) ==
    LET ws        == Append(pm.websites, url)
        availH    == Max(winH - promptAreaHeight, 0)
        viewWidth == winW \div Len(ws)
        old       == [i \in 1..Len(pm.views) |->
                         [pm.views[i] EXCEPT !.rect = Rect((i - 1) * viewWidth, 0, viewWidth, availH)]]
        view      == [h |-> FreshHandle(pm.views), id |-> url, url |-> url,
                      rect |-> Rect((Len(ws) - 1) * viewWidth, 0, viewWidth, availH)]
    IN PM(Append(old, view), ws)

\* utilities.ts removeBrowserView without the early return on indexOf = -1:
\* splice(-1, 1) removes the last element
removeBrowserView_noGuard(pm, h) ==
    LET viewIndex == IF IndexOfView(pm.views, h) = 0 THEN Len(pm.views)
                     ELSE IndexOfView(pm.views, h) IN
    IF viewIndex = 0 THEN pm
    ELSE PM(RemoveAt(pm.views, viewIndex), pm.websites)

\* utilities.ts removeBrowserView that leaves the view's URL in websites
removeBrowserView_keepsUrl(pm, h) ==
    LET viewIndex == IndexOfView(pm.views, h) IN
    IF viewIndex = 0 THEN pm
    ELSE
      LET vs == RemoveAt(pm.views, viewIndex) IN
      IF Len(vs) = 0 THEN PM(vs, pm.websites)
      ELSE LET availH    == Max(winH - promptAreaHeight, 0)
               viewWidth == winW \div Len(vs)
           IN PM([i \in 1..Len(vs) |->
                     [vs[i] EXCEPT !.rect = Rect((i - 1) * viewWidth, 0, viewWidth, availH)]],
                 pm.websites)

\* utilities.ts removeBrowserView; target is a view handle
removeBrowserView(pm, h) ==
    LET viewIndex == IndexOfView(pm.views, h) IN
    IF viewIndex = 0 THEN pm
    ELSE
      LET target   == pm.views[viewIndex]
          urlIndex == IndexOfUrl(pm.websites, target.id)
          ws       == IF urlIndex # 0 THEN RemoveAt(pm.websites, urlIndex) ELSE pm.websites
          vs       == RemoveAt(pm.views, viewIndex)
      IN IF Len(vs) = 0 THEN PM(vs, ws)
         ELSE LET availH    == Max(winH - promptAreaHeight, 0)
                  viewWidth == winW \div Len(vs)
              IN PM([i \in 1..Len(vs) |->
                        [vs[i] EXCEPT !.rect = Rect((i - 1) * viewWidth, 0, viewWidth, availH)]],
                    ws)

\* the window's content bounds and the reserved chrome, as adjustBrowserViewBounds reads them
Chrome(w, h, bottom, left, right) ==
    [width |-> w, height |-> h, promptAreaHeight |-> bottom, sidebarWidth |-> left,
     reservedRight |-> right]
CurrentChrome == Chrome(winW, winH, promptAreaHeight, sidebarWidth, reservedRight)

\* main.ts adjustBrowserViewBounds: availableWidth (Math.ceil of an integer is the integer)
AvailableWidthAt(g) == Max(g.width - Max(0, g.sidebarWidth) - Max(0, g.reservedRight), 0)
AvailableWidth == AvailableWidthAt(CurrentChrome)

\* Math.floor(availableWidth / n)
FloorDiv(a, n) == a \div n
\* Math.ceil(availableWidth / n)
CeilDiv(a, n) == (a + n - 1) \div n

\* main.ts adjustBrowserViewBounds with a ceiling in place of the floor
adjustBounds_ceil(pm, g) ==
    LET availableHeight == Max(g.height - g.promptAreaHeight, 0)
        offset          == Max(0, g.sidebarWidth)
        viewWidth       == IF Len(pm.websites) > 0
                           THEN CeilDiv(AvailableWidthAt(g), Len(pm.websites))
                           ELSE AvailableWidthAt(g)
    IN PM([i \in 1..Len(pm.views) |->
              [pm.views[i] EXCEPT !.rect =
                  Rect(offset + (i - 1) * viewWidth, HEADER_HEIGHT, viewWidth,
                       Max(availableHeight - HEADER_HEIGHT, 0))]],
          pm.websites)

\* main.ts adjustBrowserViewBounds without the Math.max(..., 0) clamps
adjustBounds_unclamped(pm, g) ==
    LET availableHeight == g.height - g.promptAreaHeight
        offset          == g.sidebarWidth
        availableWidth  == g.width - g.sidebarWidth - g.reservedRight
        viewWidth       == IF Len(pm.websites) > 0
                           THEN FloorDiv(availableWidth, Len(pm.websites))
                           ELSE availableWidth
    IN PM([i \in 1..Len(pm.views) |->
              [pm.views[i] EXCEPT !.rect =
                  Rect(offset + (i - 1) * viewWidth, HEADER_HEIGHT, viewWidth,
                       availableHeight - HEADER_HEIGHT)]],
          pm.websites)

\* main.ts adjustBrowserViewBounds, under the chrome g
adjustBounds(pm, g) ==
    LET availableHeight == Max(g.height - g.promptAreaHeight, 0)
        offset          == Max(0, g.sidebarWidth)
        viewWidth       == IF Len(pm.websites) > 0
                           THEN FloorDiv(AvailableWidthAt(g), Len(pm.websites))
                           ELSE AvailableWidthAt(g)
    IN PM([i \in 1..Len(pm.views) |->
              [pm.views[i] EXCEPT !.rect =
                  Rect(offset + (i - 1) * viewWidth, HEADER_HEIGHT, viewWidth,
                       Max(availableHeight - HEADER_HEIGHT, 0))]],
          pm.websites)

adjustBrowserViewBounds(pm) == adjustBounds(pm, CurrentChrome)

\* main.ts initializeBrowserViews: one view per entry of websites, then a relayout
RECURSIVE PushViews(_, _)
PushViews(vs, urls) ==
    IF urls = << >> THEN vs
    ELSE PushViews(Append(vs, [h |-> FreshHandle(vs), id |-> Head(urls), url |-> Head(urls),
                               rect |-> ZeroRect]),
                   Tail(urls))

\* initializeBrowserViews without the browserViewsInitialized return
initializeBrowserViews_ignoresFlag(pm, initialized, g) ==
    adjustBounds(PM(PushViews(pm.views, pm.websites), pm.websites), g)

initializeBrowserViews(pm, initialized, g) ==
    IF initialized THEN adjustBounds(pm, g)
    ELSE adjustBounds(PM(PushViews(pm.views, pm.websites), pm.websites), g)

\* main.ts getCurrentTabsSnapshot
Tab(p, u, z) == [provider |-> p, url |-> u, zoom |-> z]

getCurrentTabsSnapshot(vs) ==
    [i \in 1..Len(vs) |-> Tab(inferProviderFromUrl(vs[i].url), vs[i].url, 1)]

ProvidersOf(tabs) == [i \in 1..Len(tabs) |-> tabs[i].provider]

\* ------------------------------------------------------------ session store
EmptyMap == [k \in {} |-> << >>]

MapSet(m, k, v) == [x \in (DOMAIN m) \cup {k} |-> IF x = k THEN v ELSE m[x]]
MapDel(m, k)    == [x \in (DOMAIN m) \ {k} |-> m[x]]

\* Array.prototype.filter(x => x !== id)
Without(s, id) == SelectSeq(s, LAMBDA x : x # id)
InSeq(s, x)    == \E i \in 1..Len(s) : s[i] = x

Meta(title, t)      == [title |-> title, pinned |-> FALSE, createdAt |-> t, updatedAt |-> t]
Layout(tabs, last)  == [tabs |-> tabs, last |-> last]

\* main.ts getDefaultSessionState
getDefaultSessionState ==
    [activeId |-> NoId, order |-> << >>, pinned |-> << >>, items |-> EmptyMap, layouts |-> EmptyMap]

\* state.layouts[id] ?? { tabs: [] }
LayoutOr(st, id) == IF id \in DOMAIN st.layouts THEN st.layouts[id] ELSE Layout(<< >>, EmptyMap)

\* const meta = state.items[id]; if (meta) meta.updatedAt = Date.now()
Touch(items, id, t) ==
    IF id \in DOMAIN items THEN [items EXCEPT ![id].updatedAt = t] ELSE items

\* ------------------------------------------------------------------ titles
IsSpace(c) == c \in {" ", "\t", "\n"}

\* the part of s from its first character that is no white space
TrimLeft(s) ==
    IF \A i \in 1..Len(s) : IsSpace(s[i]) THEN << >>
    ELSE SubSeq(s, CHOOSE i \in 1..Len(s) :
                      ~IsSpace(s[i]) /\ \A j \in 1..(i - 1) : IsSpace(s[j]),
                Len(s))

\* the part of s up to its last character that is no white space
TrimRight(s) ==
    IF \A i \in 1..Len(s) : IsSpace(s[i]) THEN << >>
    ELSE SubSeq(s, 1, CHOOSE i \in 1..Len(s) :
                         ~IsSpace(s[i]) /\ \A j \in (i + 1)..Len(s) : IsSpace(s[j]))

\* String.prototype.trim
Trim(s) == TrimRight(TrimLeft(s))

\* replace(/\s+/g, " "): every run of white space becomes one blank
CollapseSpaces(s) ==
    LET kept == SelectSeq([i \in 1..Len(s) |-> i],
                          LAMBDA i : ~IsSpace(s[i]) \/ i = 1 \/ ~IsSpace(s[i - 1]))
    IN [k \in 1..Len(kept) |-> IF IsSpace(s[kept[k]]) THEN " " ELSE s[kept[k]]]

\* slice(0, n)
Slice(s, n) == SubSeq(s, 1, Min(n, Len(s)))

\* `Session ${new Date(now).toLocaleString('sv-SE').slice(0, 16)}`
DefaultTitle(t) == <<"Session", " ", ToString(t)>>

\* createNewSession's title without the slice(0, 80)
TitleFromSeed_noCut(seed, t) ==
    LET clean == CollapseSpaces(Trim(seed))
    IN IF Len(clean) > 0 THEN clean ELSE DefaultTitle(t)

\* createNewSession: the title of a session made from a seed
TitleFromSeed(seed, t) ==
    LET clean == CollapseSpaces(Trim(seed))
    IN IF Len(clean) > 0 THEN Slice(clean, TitleLimit) ELSE DefaultTitle(t)

\* -------------------------------------------------------- session controller
\* new Map(prevTabs.map(t => [t.provider, t])).get(p): the last tab of provider p
HasPrev(prevTabs, p) == \E i \in 1..Len(prevTabs) : prevTabs[i].provider = p
PrevTab(prevTabs, p) ==
    prevTabs[CHOOSE i \in 1..Len(prevTabs) :
                /\ prevTabs[i].provider = p
                /\ \A j \in (i+1)..Len(prevTabs) : prevTabs[j].provider # p]

\* for (const t of current) if (t.provider) last[t.provider] = t.url
RECURSIVE RecordLast(_, _)
RecordLast(last, current) ==
    IF current = << >> THEN last
    ELSE LET t == Head(current) IN
         RecordLast(IF t.provider # << >> THEN MapSet(last, t.provider, t.url) ELSE last,
                    Tail(current))

\* Array.prototype.find(t => t.provider === p)
HasFirstTab(tabs, p) == \E i \in 1..Len(tabs) : tabs[i].provider = p
FirstTab(tabs, p) ==
    tabs[CHOOSE i \in 1..Len(tabs) :
            /\ tabs[i].provider = p
            /\ \A j \in 1..(i-1) : tabs[j].provider # p]

\* saveActiveLayoutSnapshot storing the snapshot as it is, without the merge
saveActiveLayoutSnapshot_takesCurrent(st, vs, t) ==
    IF st.activeId = NoId THEN st
    ELSE
      LET current == getCurrentTabsSnapshot(vs)
          layout  == LayoutOr(st, st.activeId)
      IN [st EXCEPT !.layouts = MapSet(st.layouts, st.activeId,
                                       Layout(current, RecordLast(layout.last, current))),
                    !.items   = Touch(st.items, st.activeId, t)]

\* saveActiveLayoutSnapshot rebuilding lastUrlByProvider from the live panes only
saveActiveLayoutSnapshot_liveOnly(st, vs, t) ==
    IF st.activeId = NoId THEN st
    ELSE
      LET current  == getCurrentTabsSnapshot(vs)
          layout   == LayoutOr(st, st.activeId)
          prevTabs == layout.tabs
          nextTabs == [i \in 1..Len(current) |->
                         LET c == current[i] IN
                         IF HasPrev(prevTabs, c.provider)
                         THEN Tab(c.provider, PrevTab(prevTabs, c.provider).url,
                                  PrevTab(prevTabs, c.provider).zoom)
                         ELSE Tab(c.provider, BaseUrlOr(c.provider, c.url), c.zoom)]
          last     == RecordLast(EmptyMap, current)
      IN [st EXCEPT !.layouts = MapSet(st.layouts, st.activeId, Layout(nextTabs, last)),
                    !.items   = Touch(st.items, st.activeId, t)]

\* main.ts saveActiveLayoutSnapshot: the document it writes
saveActiveLayoutSnapshot(st, vs, t) ==
    IF st.activeId = NoId THEN st
    ELSE
      LET current  == getCurrentTabsSnapshot(vs)
          layout   == LayoutOr(st, st.activeId)
          prevTabs == layout.tabs
          nextTabs == [i \in 1..Len(current) |->
                         LET c == current[i] IN
                         IF HasPrev(prevTabs, c.provider)
                         THEN Tab(c.provider, PrevTab(prevTabs, c.provider).url,
                                  PrevTab(prevTabs, c.provider).zoom)
                         ELSE Tab(c.provider, BaseUrlOr(c.provider, c.url), c.zoom)]
          last     == RecordLast(layout.last, current)
      IN [st EXCEPT !.layouts = MapSet(st.layouts, st.activeId, Layout(nextTabs, last)),
                    !.items   = Touch(st.items, st.activeId, t)]

\* main.ts wireViewUrlPersistence, the update listener: the document it writes
updateLastUrl(st, url, t) ==
    IF st.activeId = NoId THEN st
    ELSE
      LET provider == inferProviderFromUrl(url)
          layout   == LayoutOr(st, st.activeId)
          last     == MapSet(layout.last, provider, url)
      IN [st EXCEPT !.layouts = MapSet(st.layouts, st.activeId, Layout(layout.tabs, last)),
                    !.items   = Touch(st.items, st.activeId, t)]

\* restoreLayout's URL choice with tab.url taking precedence over the last-URL map
ResolveUrl_tabFirst(tab, last) ==
    IF Len(tab.url) > 0
    THEN tab.url
    ELSE IF tab.provider \in DOMAIN last /\ Len(last[tab.provider]) > 0
         THEN last[tab.provider]
         ELSE BaseUrlOr(tab.provider, tab.url)

\* main.ts restoreLayout, the URL a saved tab is opened at
ResolveUrl(tab, last) ==
    IF tab.provider \in DOMAIN last /\ Len(last[tab.provider]) > 0
    THEN last[tab.provider]
    ELSE IF Len(tab.url) > 0
         THEN tab.url
         ELSE BaseUrlOr(tab.provider, tab.url)

RECURSIVE RemoveAll(_, _)
RemoveAll(pm, toRemove) ==
    IF toRemove = << >> THEN pm
    ELSE RemoveAll(removeBrowserView(pm, Head(toRemove).h), Tail(toRemove))

\* the creation loop of restoreLayout running from the last tab to the first
RECURSIVE AddAll_reversed(_, _, _)
AddAll_reversed(pm, tabs, last) ==
    IF tabs = << >> THEN pm
    ELSE addBrowserView(AddAll_reversed(pm, Tail(tabs), last), ResolveUrl(Head(tabs), last))

RECURSIVE AddAll(_, _, _)
AddAll(pm, tabs, last) ==
    IF tabs = << >> THEN pm
    ELSE AddAll(addBrowserView(pm, ResolveUrl(Head(tabs), last)), Tail(tabs), last)

\* main.ts restoreLayout: the pane lists it leaves (the save timer is set by the caller)
restoreLayout(pm, tabs, last) ==
    LET closed  == RemoveAll(pm, pm.views)
        cleared == PM(closed.views, << >>)
    IN adjustBrowserViewBounds(AddAll(cleared, tabs, last))

\* main.ts createNewSession: the tabs and the document it writes
NewSessionTabs(vs, useDefaultLayout) ==
    LET snap == getCurrentTabsSnapshot(vs) IN
    IF useDefaultLayout
    THEN [i \in 1..Len(snap) |-> Tab(snap[i].provider, EmptyUrl, snap[i].zoom)]
    ELSE snap

\* the new id appended to order instead of put in front
InsertSession_appends(st, id, meta, tabs) ==
    [st EXCEPT !.items    = MapSet(st.items, id, meta),
               !.layouts  = MapSet(st.layouts, id, Layout(tabs, EmptyMap)),
               !.order    = SelectSeq(st.order, LAMBDA x : x # id /\ ~InSeq(st.pinned, x)) \o <<id>>,
               !.activeId = id]

InsertSession(st, id, meta, tabs) ==
    [st EXCEPT !.items    = MapSet(st.items, id, meta),
               !.layouts  = MapSet(st.layouts, id, Layout(tabs, EmptyMap)),
               !.order    = <<id>> \o SelectSeq(st.order, LAMBDA x : x # id /\ ~InSeq(st.pinned, x)),
               !.activeId = id]

createNewSession(st, id, seed, useDefaultLayout, vs, t) ==
    InsertSession(st, id, Meta(TitleFromSeed(seed, t), t), NewSessionTabs(vs, useDefaultLayout))

\* main.ts sessions:create
sessionsCreate(st, id, title, vs, t) ==
    LET promptTitle == Trim(title)
    IN InsertSession(st, id,
                     Meta(IF Len(promptTitle) > 0 THEN promptTitle ELSE DefaultTitle(t), t),
                     getCurrentTabsSnapshot(vs))

\* ensureDefaultSession without the hasAny return
ensureDefaultSession_always(st, id, vs, t) ==
    [st EXCEPT !.items    = MapSet(st.items, id, Meta(DefaultTitle(t), t)),
               !.layouts  = MapSet(st.layouts, id, Layout(getCurrentTabsSnapshot(vs), EmptyMap)),
               !.order    = <<id>>,
               !.activeId = id]

\* main.ts ensureDefaultSession
ensureDefaultSession(st, id, vs, t) ==
    IF DOMAIN st.items # {} THEN st
    ELSE [st EXCEPT !.items    = MapSet(st.items, id, Meta(DefaultTitle(t), t)),
                    !.layouts  = MapSet(st.layouts, id, Layout(getCurrentTabsSnapshot(vs), EmptyMap)),
                    !.order    = <<id>>,
                    !.activeId = id]

\* main.ts sessions:save-layout, sessions:open, sessions:rename: the check that throws
saveLayoutRejects(st, id) == id \notin DOMAIN st.items
openRejects(st, id)       == id \notin DOMAIN st.layouts
renameRejects(st, id)     == id \notin DOMAIN st.items

\* sessions:save-layout keeping the session's lastUrlByProvider
sessionsSaveLayout_keepsLast(st, id, tabs, t) ==
    [st EXCEPT !.layouts = MapSet(st.layouts, id, Layout(tabs, LayoutOr(st, id).last)),
               !.items   = [st.items EXCEPT ![id].updatedAt = t]]

\* main.ts sessions:save-layout: the document the handler leaves
sessionsSaveLayout(st, id, tabs, t) ==
    [st EXCEPT !.layouts = MapSet(st.layouts, id, Layout(tabs, EmptyMap)),
               !.items   = [st.items EXCEPT ![id].updatedAt = t]]

\* sessions:open assigning activeId before the layout is looked up
sessionsOpen_activeFirst(st, id) == [st EXCEPT !.activeId = id]

\* main.ts sessions:open: the document the handler leaves
sessionsOpen(st, id) ==
    IF id \notin DOMAIN st.layouts THEN st ELSE [st EXCEPT !.activeId = id]

\* sessions:rename storing the trimmed title even when it is empty
sessionsRename_blankAllowed(st, id, title, t) ==
    [st EXCEPT !.items =
          [st.items EXCEPT ![id].title     = Trim(title),
                           ![id].updatedAt = t]]

sessionsRename(st, id, title, t) ==
    LET trimmed == Trim(title)
    IN [st EXCEPT !.items =
          [st.items EXCEPT ![id].title     = IF Len(trimmed) > 0 THEN trimmed ELSE @,
                           ![id].updatedAt = t]]

\* sessions:delete leaving the layout entry behind
sessionsDelete_keepsLayout(st, id) ==
    [st EXCEPT !.items    = MapDel(st.items, id),
               !.order    = Without(st.order, id),
               !.pinned   = Without(st.pinned, id),
               !.activeId = IF st.activeId = id THEN NoId ELSE st.activeId]

\* sessions:delete selecting the next session of order when the active one is deleted
sessionsDelete_selectsNext(st, id) ==
    LET rest == Without(st.order, id) IN
    [st EXCEPT !.items    = MapDel(st.items, id),
               !.layouts  = MapDel(st.layouts, id),
               !.order    = rest,
               !.pinned   = Without(st.pinned, id),
               !.activeId = IF st.activeId = id
                            THEN (IF Len(rest) > 0 THEN rest[1] ELSE NoId)
                            ELSE st.activeId]

\* sessions:delete clearing activeId whichever session is deleted
sessionsDelete_alwaysClears(st, id) ==
    [st EXCEPT !.items    = MapDel(st.items, id),
               !.layouts  = MapDel(st.layouts, id),
               !.order    = Without(st.order, id),
               !.pinned   = Without(st.pinned, id),
               !.activeId = NoId]

\* main.ts sessions:delete
sessionsDelete(st, id) ==
    [st EXCEPT !.items    = MapDel(st.items, id),
               !.layouts  = MapDel(st.layouts, id),
               !.order    = Without(st.order, id),
               !.pinned   = Without(st.pinned, id),
               !.activeId = IF st.activeId = id THEN NoId ELSE st.activeId]

\* sessions:list returning the oldest unpinned session first
sessionsList_oldestFirst(st) ==
    LET all == st.pinned \o [i \in 1..Len(st.order) |-> st.order[Len(st.order) + 1 - i]]
    IN [items    |-> SelectSeq(all, LAMBDA id : id \in DOMAIN st.items),
        activeId |-> st.activeId]

\* main.ts sessions:list: the ids of the metadata returned, and activeId
sessionsList(st) ==
    LET all == st.pinned \o st.order
    IN [items    |-> SelectSeq(all, LAMBDA id : id \in DOMAIN st.items),
        activeId |-> st.activeId]

\* main.ts context:new
contextNewTabs(mode, vs) ==
    IF mode = "empty" THEN << >>
    ELSE LET snap == getCurrentTabsSnapshot(vs)
         IN [i \in 1..Len(snap) |-> Tab(snap[i].provider, EmptyUrl, 1)]

contextNew(st) == [st EXCEPT !.activeId = NoId]

\* main.ts open-<provider>: the URL the pane is opened at
OpenProviderUrl(st, p) ==
    LET has    == st.activeId # NoId /\ st.activeId \in DOMAIN st.layouts
        layout == LayoutOr(st, st.activeId)
    IN IF has /\ p \in DOMAIN layout.last /\ Len(layout.last[p]) > 0
       THEN layout.last[p]
       ELSE IF has /\ HasFirstTab(layout.tabs, p) /\ Len(FirstTab(layout.tabs, p).url) > 0
            THEN FirstTab(layout.tabs, p).url
            ELSE PROVIDER_BASE_URL[p]

\* close-<provider> recording the URL without looking at activeId
closeProviderRecord_unguarded(st, p, url) ==
    LET layout == LayoutOr(st, st.activeId)
    IN [st EXCEPT !.layouts =
           MapSet(st.layouts, st.activeId, Layout(layout.tabs, MapSet(layout.last, p, url)))]

\* main.ts close-<provider>: the document written before the pane is removed
closeProviderRecord(st, p, url) ==
    IF st.activeId = NoId THEN st
    ELSE LET layout == LayoutOr(st, st.activeId)
         IN [st EXCEPT !.layouts =
                MapSet(st.layouts, st.activeId, Layout(layout.tabs, MapSet(layout.last, p, url)))]

\* views.find(view => view.id.match(name)), 0 when there is none
FindViewById(vs, name) ==
    IF \E i \in 1..Len(vs) : IdMatches(vs[i].id, name)
    THEN CHOOSE i \in 1..Len(vs) :
            IdMatches(vs[i].id, name) /\ \A j \in 1..(i-1) : ~IdMatches(vs[j].id, name)
    ELSE 0

\* send-prompt running the submit loop before the session is created
sendPromptHandler_submitFirst(st, id, firstPrompt, vs, t) ==
    LET after == IF st.activeId = NoId
                 THEN createNewSession(st, id, firstPrompt, FALSE, vs, t)
                 ELSE st
    IN [st |-> after, submitActive |-> st.activeId]

\* send-prompt deciding on, and writing from, the document as it was before any
\* session was written (a read that later writes have superseded)
sendPromptHandler_staleRead(st, id, firstPrompt, vs, t) ==
    LET read  == getDefaultSessionState
        after == createNewSession(read, id, firstPrompt, FALSE, vs, t)
    IN [st |-> after, submitActive |-> after.activeId]

\* main.ts send-prompt, from the read of the state to the submit loop:
\* the document written and the active id when sendPromptInView runs
sendPromptHandler(st, id, firstPrompt, vs, t) ==
    LET after == IF st.activeId = NoId
                 THEN createNewSession(st, id, firstPrompt, FALSE, vs, t)
                 ELSE st
    IN [st |-> after, submitActive |-> after.activeId]

\* main.ts restoreLastActiveSessionAtStartup: the id it restores (NoId: none)
StartupId(st) ==
    IF st.activeId # NoId THEN st.activeId
    ELSE IF Len(st.pinned) > 0 THEN st.pinned[1]
    ELSE IF Len(st.order) > 0 THEN st.order[1]
    ELSE NoId

\* ------------------------------------------------------------------ inputs
ChatUrl    == Url(<<"chatgpt", "com">>, <<"c", "/", "1">>)
ArenaUrl   == Url(<<"lmarena", "ai">>, << >>)

Prompts         == { << >>, <<" ", "h", "i">> }
RenameTitles    == { <<" ">>, <<"h", "i", " ">> }
ToggleProviders == { <<"chatgpt">>, <<"claude">> }
NavUrls         == { ChatUrl, ArenaUrl }
LayoutInputs    == { << >>, <<Tab(<<"claude">>, EmptyUrl, 1)>>, <<Tab(<<"chatgpt">>, ChatUrl, 2)>> }
SessionIds      == 1..MaxSessions

\* ----------------------------------------------------------------- outcome
Op(ch, ok, created) == [ch |-> ch, ok |-> ok, created |-> created]

\* ------------------------------------------------------------------- state
\* the memory of a process that has just been started
InitProcess ==
    /\ phase = "launch"
    /\ views = << >>
    /\ websites = DefaultWebsites
    /\ detached = {}
    /\ browserViewsInitialized = FALSE
    /\ didFinishLoadPending = FALSE
    /\ sessionLayoutTimer = FALSE
    /\ postSendLayoutTimer = FALSE
    /\ pendingSends = 0
    /\ winW = InitialWinW
    /\ winH = InitialWinH
    /\ promptAreaHeight = 0
    /\ sidebarWidth = InitialSidebarWidth
    /\ reservedRight = 0
    /\ resizeTimeout = "none"
    /\ sidebarTimers = 0
    /\ now = 0
    /\ nOpens = 0
    /\ nCloses = 0
    /\ lastOp = Op("init", TRUE, NoId)
    /\ activeChanged = NoNotice
    /\ startupNotice = NoNotice
    /\ submitActive = NoId
    /\ steps = 0

\* first run: there is no store
Init ==
    /\ state = getDefaultSessionState
    /\ nextId = 0
    /\ InitProcess

geometry == <<winW, winH, promptAreaHeight, sidebarWidth, reservedRight, resizeTimeout, sidebarTimers>>
paneHistory == <<nOpens, nCloses, detached>>

\* utilities.ts removeBrowserView takes the views vs out of the window without
\* closing their webContents: they stay referenced by their listeners
Detached(vs) == {[h |-> vs[i].h, id |-> vs[i].id] : i \in 1..Len(vs)}

SetPanes(pm) == views' = pm.views /\ websites' = pm.websites

\* app.whenReady: createWindow, restoreLastActiveSessionAtStartup
Startup ==
    /\ phase = "launch"
    /\ (DOMAIN state.items = {}) => nextId < MaxSessions
    /\ LET fresh == DOMAIN state.items = {}
           st1   == ensureDefaultSession(state, nextId + 1, views, now)
           id    == StartupId(st1)
           st2   == IF st1.activeId = NoId /\ id # NoId THEN [st1 EXCEPT !.activeId = id] ELSE st1
           go    == id # NoId /\ id \in DOMAIN st2.layouts
       IN /\ state' = st2
          /\ nextId' = IF fresh THEN nextId + 1 ELSE nextId
          /\ IF go
             THEN /\ browserViewsInitialized' = TRUE
                  /\ startupNotice' = id
                  /\ SetPanes(restoreLayout(PM(views, websites), st2.layouts[id].tabs, st2.layouts[id].last))
                  /\ sessionLayoutTimer' = TRUE
             ELSE /\ startupNotice' = NoNotice
                  /\ UNCHANGED <<browserViewsInitialized, views, websites, sessionLayoutTimer>>
    /\ phase' = "running"
    /\ didFinishLoadPending' = TRUE
    /\ lastOp' = Op("startup", TRUE, IF DOMAIN state.items = {} THEN nextId + 1 ELSE NoId)
    /\ activeChanged' = NoNotice
    /\ UNCHANGED <<postSendLayoutTimer, pendingSends, now, geometry, paneHistory, submitActive>>

\* the process exits: memory is lost, the store is kept
Quit ==
    /\ phase = "running"
    /\ phase' = "launch"
    /\ views' = << >>
    /\ websites' = DefaultWebsites
    /\ browserViewsInitialized' = FALSE
    /\ didFinishLoadPending' = FALSE
    /\ sessionLayoutTimer' = FALSE
    /\ postSendLayoutTimer' = FALSE
    /\ pendingSends' = 0
    /\ winW' = InitialWinW
    /\ winH' = InitialWinH
    /\ promptAreaHeight' = 0
    /\ sidebarWidth' = InitialSidebarWidth
    /\ reservedRight' = 0
    /\ resizeTimeout' = "none"
    /\ sidebarTimers' = 0
    /\ lastOp' = Op("quit", TRUE, NoId)
    /\ activeChanged' = NoNotice
    /\ startupNotice' = NoNotice
    /\ submitActive' = NoId
    /\ detached' = {}
    /\ UNCHANGED <<state, now, nextId, nOpens, nCloses>>

\* what every session handler leaves alone
sessionFrame == <<phase, browserViewsInitialized, didFinishLoadPending, startupNotice, now, geometry,
                  nOpens, nCloses>>

\* ipcMain.handle "sessions:create"
SessionsCreate(title) ==
    /\ phase = "running"
    /\ nextId < MaxSessions
    /\ state' = sessionsCreate(state, nextId + 1, title, views, now)
    /\ nextId' = nextId + 1
    /\ lastOp' = Op("sessions:create", TRUE, nextId + 1) /\ activeChanged' = NoNotice
    /\ UNCHANGED <<views, websites, sessionLayoutTimer, postSendLayoutTimer, pendingSends,
                   submitActive, sessionFrame, detached>>

\* ipcMain.on "send-prompt" once firstPrompt is known: session creation, submit loop,
\* post-send timer
SendBody(firstPrompt) ==
    /\ (state.activeId = NoId) => nextId < MaxSessions
    /\ LET r == sendPromptHandler(state, nextId + 1, firstPrompt, views, now)
       IN /\ state' = r.st
          /\ nextId' = IF (nextId + 1) \in DOMAIN r.st.items THEN nextId + 1 ELSE nextId
          /\ submitActive' = r.submitActive
          /\ lastOp' = Op("send-prompt", TRUE,
                          IF (nextId + 1) \in DOMAIN r.st.items THEN nextId + 1 ELSE NoId)
          /\ activeChanged' = IF (nextId + 1) \in DOMAIN r.st.items THEN nextId + 1 ELSE NoNotice
    /\ postSendLayoutTimer' = TRUE
    /\ UNCHANGED <<views, websites, sessionLayoutTimer, sessionFrame, detached>>

\* ipcMain.on "send-prompt": a non-empty prompt runs through; an empty one awaits the
\* read of the prompt box
SendPrompt(prompt) ==
    /\ phase = "running"
    /\ IF Len(prompt) > 0
       THEN SendBody(prompt) /\ UNCHANGED pendingSends
       ELSE /\ pendingSends < MaxSends
            /\ pendingSends' = pendingSends + 1
            /\ lastOp' = Op("send-prompt:await", TRUE, NoId) /\ activeChanged' = NoNotice
            /\ UNCHANGED <<state, nextId, views, websites, sessionLayoutTimer,
                           postSendLayoutTimer, submitActive, sessionFrame, detached>>

\* the awaited executeJavaScript settles with the text of the prompt box ("" when it rejects)
SendResume(text) ==
    /\ phase = "running"
    /\ pendingSends > 0
    /\ pendingSends' = pendingSends - 1
    /\ SendBody(text)

\* globalShortcut CommandOrControl+Q, the timeout callback: createNewSession(text, true)
HotkeyCapture(text) ==
    /\ phase = "running"
    /\ nextId < MaxSessions
    /\ state' = createNewSession(state, nextId + 1, text, TRUE, views, now)
    /\ SetPanes(restoreLayout(PM(views, websites), NewSessionTabs(views, TRUE), EmptyMap))
    /\ nextId' = nextId + 1
    /\ sessionLayoutTimer' = TRUE
    /\ lastOp' = Op("hotkey", TRUE, nextId + 1)
    /\ activeChanged' = nextId + 1
    /\ detached' = detached \cup Detached(views)
    /\ UNCHANGED <<postSendLayoutTimer, pendingSends, submitActive, sessionFrame>>

\* ipcMain.handle "sessions:open"
SessionsOpen(id) ==
    /\ phase = "running"
    /\ state' = sessionsOpen(state, id)
    /\ IF openRejects(state, id)
       THEN /\ lastOp' = Op("sessions:open", FALSE, NoId) /\ activeChanged' = NoNotice
            /\ UNCHANGED <<views, websites, sessionLayoutTimer, detached>>
       ELSE /\ SetPanes(restoreLayout(PM(views, websites), state.layouts[id].tabs,
                                      state.layouts[id].last))
            /\ detached' = detached \cup Detached(views)
            /\ sessionLayoutTimer' = TRUE
            /\ lastOp' = Op("sessions:open", TRUE, NoId)
            /\ activeChanged' = id
    /\ UNCHANGED <<nextId, postSendLayoutTimer, pendingSends, submitActive, sessionFrame>>

\* ipcMain.handle "sessions:save-layout"
SessionsSaveLayout(id, tabs) ==
    /\ phase = "running"
    /\ IF saveLayoutRejects(state, id)
       THEN lastOp' = Op("sessions:save-layout", FALSE, NoId) /\ activeChanged' = NoNotice /\ UNCHANGED state
       ELSE lastOp' = Op("sessions:save-layout", TRUE, NoId) /\ activeChanged' = NoNotice /\ state' = sessionsSaveLayout(state, id, tabs, now)
    /\ UNCHANGED <<nextId, views, websites, sessionLayoutTimer, postSendLayoutTimer,
                   pendingSends, submitActive, sessionFrame, detached>>

\* ipcMain.handle "sessions:rename"
SessionsRename(id, title) ==
    /\ phase = "running"
    /\ IF renameRejects(state, id)
       THEN lastOp' = Op("sessions:rename", FALSE, NoId) /\ activeChanged' = NoNotice /\ UNCHANGED state
       ELSE lastOp' = Op("sessions:rename", TRUE, NoId) /\ activeChanged' = NoNotice /\ state' = sessionsRename(state, id, title, now)
    /\ UNCHANGED <<nextId, views, websites, sessionLayoutTimer, postSendLayoutTimer,
                   pendingSends, submitActive, sessionFrame, detached>>

\* ipcMain.handle "sessions:delete"
SessionsDelete(id) ==
    /\ phase = "running"
    /\ state' = sessionsDelete(state, id)
    /\ lastOp' = Op("sessions:delete", TRUE, NoId) /\ activeChanged' = NoNotice
    /\ UNCHANGED <<nextId, views, websites, sessionLayoutTimer, postSendLayoutTimer,
                   pendingSends, submitActive, sessionFrame, detached>>

\* ipcMain.handle "context:new"
ContextNew(mode) ==
    /\ phase = "running"
    /\ state' = contextNew(state)
    /\ SetPanes(restoreLayout(PM(views, websites), contextNewTabs(mode, views), EmptyMap))
    /\ sessionLayoutTimer' = TRUE
    /\ lastOp' = Op("context:new", TRUE, NoId)
    /\ activeChanged' = NoId
    /\ detached' = detached \cup Detached(views)
    /\ UNCHANGED <<nextId, postSendLayoutTimer, pendingSends, submitActive, sessionFrame>>

\* ipcMain.on "open-<provider>"
OpenProvider(p) ==
    /\ phase = "running"
    /\ Len(views) < MaxPanes
    /\ SetPanes(adjustBrowserViewBounds(addBrowserView(PM(views, websites), OpenProviderUrl(state, p))))
    /\ sessionLayoutTimer' = TRUE
    /\ lastOp' = Op("open-provider", TRUE, NoId) /\ activeChanged' = NoNotice
    /\ UNCHANGED <<state, nextId, postSendLayoutTimer, pendingSends, submitActive, sessionFrame, detached>>

\* ipcMain.on "close-<provider>"
CloseProvider(p) ==
    /\ phase = "running"
    /\ LET i == FindViewById(views, p[1]) IN
       IF i = 0
       THEN /\ lastOp' = Op("close-provider", FALSE, NoId) /\ activeChanged' = NoNotice
            /\ UNCHANGED <<state, views, websites, sessionLayoutTimer, detached>>
       ELSE /\ lastOp' = Op("close-provider", TRUE, NoId) /\ activeChanged' = NoNotice
            /\ state' = closeProviderRecord(state, p, views[i].url)
            /\ detached' = detached \cup Detached(<<views[i]>>)
            /\ SetPanes(adjustBrowserViewBounds(removeBrowserView(PM(views, websites), views[i].h)))
            /\ sessionLayoutTimer' = TRUE
    /\ UNCHANGED <<nextId, postSendLayoutTimer, pendingSends, submitActive, sessionFrame>>

\* did-navigate / did-navigate-in-page / did-redirect-navigation / page-title-updated
\* of live pane i, which now shows url: the update listener of wireViewUrlPersistence
DidNavigate(i, url) ==
    /\ phase = "running"
    /\ i \in 1..Len(views)
    /\ views' = [views EXCEPT ![i].url = url]
    /\ state' = updateLastUrl(state, url, now)
    /\ lastOp' = Op("did-navigate", TRUE, NoId) /\ activeChanged' = NoNotice
    /\ UNCHANGED <<websites, nextId, sessionLayoutTimer, postSendLayoutTimer, pendingSends,
                   submitActive, sessionFrame, detached>>

\* a navigation or title event of the removed view d, whose page now shows url:
\* removeBrowserView neither closes the webContents nor removes its listeners, so
\* the update listener of wireViewUrlPersistence still runs
LateNavigate(d, url) ==
    /\ phase = "running"
    /\ d \in detached
    /\ state' = updateLastUrl(state, url, now)
    /\ lastOp' = Op("late-navigate", TRUE, NoId) /\ activeChanged' = NoNotice
    /\ UNCHANGED <<views, websites, detached, nextId, sessionLayoutTimer, postSendLayoutTimer,
                   pendingSends, submitActive, sessionFrame>>

\* the debounced timer of scheduleSaveActiveLayoutSnapshot fires
SessionTimerFire ==
    /\ phase = "running"
    /\ sessionLayoutTimer
    /\ sessionLayoutTimer' = FALSE
    /\ state' = saveActiveLayoutSnapshot(state, views, now)
    /\ lastOp' = Op("save-timer", TRUE, NoId) /\ activeChanged' = NoNotice
    /\ UNCHANGED <<views, websites, nextId, postSendLayoutTimer, pendingSends,
                   submitActive, sessionFrame, detached>>

\* the 2 s timer of send-prompt fires
PostSendTimerFire ==
    /\ phase = "running"
    /\ postSendLayoutTimer
    /\ postSendLayoutTimer' = FALSE
    /\ state' = saveActiveLayoutSnapshot(state, views, now)
    /\ lastOp' = Op("post-send-timer", TRUE, NoId) /\ activeChanged' = NoNotice
    /\ UNCHANGED <<views, websites, nextId, sessionLayoutTimer, pendingSends,
                   submitActive, sessionFrame, detached>>

\* one more event is handled
Step == steps < MaxSteps /\ steps' = steps + 1

Next ==
    \/ Step /\ Startup
    \/ Step /\ Quit
    \/ \E t \in Prompts : Step /\ SessionsCreate(t)
    \/ \E t \in Prompts : Step /\ SendPrompt(t)
    \/ \E t \in Prompts : Step /\ SendResume(t)
    \/ \E t \in Prompts : Step /\ HotkeyCapture(t)
    \/ \E id \in SessionIds : Step /\ SessionsOpen(id)
    \/ \E id \in SessionIds, tabs \in LayoutInputs : Step /\ SessionsSaveLayout(id, tabs)
    \/ \E id \in SessionIds, t \in RenameTitles : Step /\ SessionsRename(id, t)
    \/ \E id \in SessionIds : Step /\ SessionsDelete(id)
    \/ \E mode \in {"default", "empty"} : Step /\ ContextNew(mode)
    \/ \E p \in ToggleProviders : Step /\ OpenProvider(p)
    \/ \E p \in ToggleProviders : Step /\ CloseProvider(p)
    \/ \E i \in 1..MaxPanes, u \in NavUrls : Step /\ DidNavigate(i, u)
    \/ Step /\ SessionTimerFire
    \/ Step /\ PostSendTimerFire

Spec == Init /\ [][Next]_vars

\* the same handlers, with the events of removed views
NextLate ==
    \/ Next
    \/ \E d \in detached, u \in NavUrls : Step /\ LateNavigate(d, u)

SpecLate == Init /\ [][NextLate]_vars

\* ------------------------------------------------- pane manager and window
\* what the pane and window steps leave alone
sessionVars == <<state, nextId, sessionLayoutTimer, postSendLayoutTimer, pendingSends,
                 submitActive, didFinishLoadPending, startupNotice>>

\* Math.round of a value given in halves
Round(halves) == (halves + 1) \div 2

WindowWidths   == {2000, 1001}
WindowHeights  == {1100, 30}
SidebarReports == {-1, 561, 4001}
BottomReports  == {0, 199, 2401}
RightReports   == {0, 101}
PaneUrls       == {PROVIDER_BASE_URL[<<"claude">>], ChatUrl}
PaneHandles    == 1..(MaxPaneOps + 1)

\* utilities.ts addBrowserView, called with url
AddPane(url) ==
    /\ phase = "running"
    /\ nOpens < MaxPaneOps
    /\ SetPanes(addBrowserView(PM(views, websites), url))
    /\ nOpens' = nOpens + 1
    /\ lastOp' = Op("addBrowserView", TRUE, NoId) /\ activeChanged' = NoNotice
    /\ UNCHANGED <<nCloses, detached, sessionVars, phase, browserViewsInitialized, now, geometry>>

\* utilities.ts removeBrowserView, called with the view object of handle h
RemovePane(h) ==
    /\ phase = "running"
    /\ LET i == IndexOfView(views, h) IN
       /\ SetPanes(removeBrowserView(PM(views, websites), h))
       /\ nCloses' = nCloses + (IF i # 0 THEN 1 ELSE 0)
       /\ detached' = IF i # 0 THEN detached \cup {[h |-> h, id |-> views[i].id]} ELSE detached
       /\ lastOp' = Op("removeBrowserView", i # 0, NoId) /\ activeChanged' = NoNotice
    /\ UNCHANGED <<nOpens, sessionVars, phase, browserViewsInitialized, now, geometry>>

\* mainWindow "resize": the window has the content size w x h, the timer is replaced
WindowResize(w, h) ==
    /\ phase = "running"
    /\ winW' = w
    /\ winH' = h
    /\ resizeTimeout' = "resize"
    /\ lastOp' = Op("resize", TRUE, NoId) /\ activeChanged' = NoNotice
    /\ UNCHANGED <<views, websites, promptAreaHeight, sidebarWidth, reservedRight, sidebarTimers,
                   sessionVars, phase, browserViewsInitialized, now, paneHistory>>

\* mainWindow "move": the same timer is replaced by one that only docks the windows
WindowMove ==
    /\ phase = "running"
    /\ resizeTimeout' = "move"
    /\ lastOp' = Op("move", TRUE, NoId) /\ activeChanged' = NoNotice
    /\ UNCHANGED <<views, websites, winW, winH, promptAreaHeight, sidebarWidth, reservedRight,
                   sidebarTimers, sessionVars, phase, browserViewsInitialized, now, paneHistory>>

\* resizeTimeout fires
ResizeTimeoutFire ==
    /\ phase = "running"
    /\ resizeTimeout # "none"
    /\ resizeTimeout' = "none"
    /\ IF resizeTimeout = "resize"
       THEN /\ views' = adjustBrowserViewBounds(PM(views, websites)).views
            /\ lastOp' = Op("resize-timer", TRUE, NoId) /\ activeChanged' = NoNotice
       ELSE /\ UNCHANGED views
            /\ lastOp' = Op("move-timer", TRUE, NoId) /\ activeChanged' = NoNotice
    /\ UNCHANGED <<websites, winW, winH, promptAreaHeight, sidebarWidth, reservedRight,
                   sidebarTimers, sessionVars, phase, browserViewsInitialized, now, paneHistory>>

\* ipcMain.on "sidebar-size"
SidebarSize(report) ==
    /\ phase = "running"
    /\ LET normalized == Max(0, Round(report)) IN
       IF normalized # sidebarWidth
       THEN /\ sidebarTimers < MaxSidebarTimers
            /\ sidebarWidth' = normalized
            /\ views' = adjustBounds(PM(views, websites),
                                     Chrome(winW, winH, promptAreaHeight, normalized,
                                            reservedRight)).views
            /\ sidebarTimers' = sidebarTimers + 1
            /\ lastOp' = Op("sidebar-size", TRUE, NoId) /\ activeChanged' = NoNotice
       ELSE /\ UNCHANGED <<sidebarWidth, views, sidebarTimers>>
            /\ lastOp' = Op("sidebar-size", FALSE, NoId) /\ activeChanged' = NoNotice
    /\ UNCHANGED <<websites, winW, winH, promptAreaHeight, reservedRight, resizeTimeout,
                   sessionVars, phase, browserViewsInitialized, now, paneHistory>>

\* the 80 ms second pass of sidebar-size fires
SidebarTimerFire ==
    /\ phase = "running"
    /\ sidebarTimers > 0
    /\ sidebarTimers' = sidebarTimers - 1
    /\ views' = adjustBrowserViewBounds(PM(views, websites)).views
    /\ lastOp' = Op("sidebar-timer", TRUE, NoId) /\ activeChanged' = NoNotice
    /\ UNCHANGED <<websites, winW, winH, promptAreaHeight, sidebarWidth, reservedRight,
                   resizeTimeout, sessionVars, phase, browserViewsInitialized, now, paneHistory>>

\* the tail of prompt-area-size and ui-chrome-size: relayout, or the first initialisation
ChromeChanged(g) ==
    /\ SetPanes(initializeBrowserViews(PM(views, websites), browserViewsInitialized, g))
    /\ browserViewsInitialized' = TRUE

\* ipcMain.on "prompt-area-size"
PromptAreaSize(report) ==
    /\ phase = "running"
    /\ LET normalizedHeight == Max(0, Round(report)) IN
       IF normalizedHeight = promptAreaHeight
       THEN /\ UNCHANGED <<promptAreaHeight, views, websites, browserViewsInitialized>>
            /\ lastOp' = Op("prompt-area-size", FALSE, NoId) /\ activeChanged' = NoNotice
       ELSE /\ promptAreaHeight' = normalizedHeight
            /\ ChromeChanged(Chrome(winW, winH, normalizedHeight, sidebarWidth, reservedRight))
            /\ lastOp' = Op("prompt-area-size", TRUE, NoId) /\ activeChanged' = NoNotice
    /\ UNCHANGED <<winW, winH, sidebarWidth, reservedRight, resizeTimeout, sidebarTimers,
                   sessionVars, phase, now, paneHistory>>

\* ipcMain.on "ui-chrome-size"
UiChromeSize(bottomReport, rightReport) ==
    /\ phase = "running"
    /\ LET bottom == Max(0, Round(bottomReport))
           right  == Max(0, Round(rightReport))
       IN /\ promptAreaHeight' = bottom
          /\ reservedRight' = right
          /\ IF bottom # promptAreaHeight \/ right # reservedRight
             THEN /\ ChromeChanged(Chrome(winW, winH, bottom, sidebarWidth, right))
                  /\ lastOp' = Op("ui-chrome-size", TRUE, NoId) /\ activeChanged' = NoNotice
             ELSE /\ UNCHANGED <<views, websites, browserViewsInitialized>>
                  /\ lastOp' = Op("ui-chrome-size", FALSE, NoId) /\ activeChanged' = NoNotice
    /\ UNCHANGED <<winW, winH, sidebarWidth, resizeTimeout, sidebarTimers,
                   sessionVars, phase, now, paneHistory>>

PaneStep == steps < MaxPaneSteps /\ steps' = steps + 1

NextPanes ==
    \/ PaneStep /\ Startup
    \/ \E u \in PaneUrls : PaneStep /\ AddPane(u)
    \/ \E h \in PaneHandles : PaneStep /\ RemovePane(h)
    \/ \E w \in WindowWidths, h \in WindowHeights : PaneStep /\ WindowResize(w, h)
    \/ PaneStep /\ WindowMove
    \/ PaneStep /\ ResizeTimeoutFire
    \/ \E r \in SidebarReports : PaneStep /\ SidebarSize(r)
    \/ PaneStep /\ SidebarTimerFire
    \/ \E r \in BottomReports : PaneStep /\ PromptAreaSize(r)
    \/ \E b \in BottomReports, r \in RightReports : PaneStep /\ UiChromeSize(b, r)

SpecPanes == Init /\ [][NextPanes]_vars

\* ------------------------------------------------------ start on a stored document
\* The store is a file read at process start (getSessionState normalises its shape):
\* the documents below are what a start can find in it, among them an activeId
\* that is null and one that names no session, and a pinned session.
StaleId == MaxSessions + 1

StoredTabs(id) ==
    IF id = 1 THEN <<Tab(<<"claude">>, EmptyUrl, 1), Tab(<<"chatgpt">>, ChatUrl, 1)>>
    ELSE <<Tab(<<"chatgpt">>, EmptyUrl, 1)>>

SeqRange(q) == {q[i] : i \in 1..Len(q)}

StoredDoc(active, order, pinned) ==
    [activeId |-> active, order |-> order, pinned |-> pinned,
     items    |-> [id \in SeqRange(order) \cup SeqRange(pinned) |->
                      [Meta(DefaultTitle(0), 0) EXCEPT !.pinned = (id \in SeqRange(pinned))]],
     layouts  |-> [id \in SeqRange(order) \cup SeqRange(pinned) |->
                      Layout(StoredTabs(id), EmptyMap)]]

StoredStates ==
    {getDefaultSessionState} \cup
    {StoredDoc(a, op[1], op[2]) :
        a \in {NoId, 1, 2, StaleId},
        op \in {<< <<2, 1>>, << >> >>, << <<2>>, <<1>> >>, << <<1>>, << >> >>}}

InitStartup ==
    /\ state \in StoredStates
    /\ nextId = Cardinality(DOMAIN state.items)
    /\ InitProcess

\* mainWindow.webContents.once("did-finish-load"): initializeBrowserViews
DidFinishLoad ==
    /\ phase = "running"
    /\ didFinishLoadPending
    /\ didFinishLoadPending' = FALSE
    /\ ChromeChanged(CurrentChrome)
    /\ lastOp' = Op("did-finish-load", TRUE, NoId)
    /\ activeChanged' = startupNotice
    /\ startupNotice' = NoNotice
    /\ UNCHANGED <<state, nextId, sessionLayoutTimer, postSendLayoutTimer, pendingSends,
                   submitActive, phase, now, geometry, paneHistory>>

StartupStep == steps < MaxStartupSteps /\ steps' = steps + 1

NextStartup ==
    \/ StartupStep /\ Startup
    \/ StartupStep /\ Quit
    \/ StartupStep /\ DidFinishLoad
    \/ \E r \in BottomReports : StartupStep /\ PromptAreaSize(r)
    \/ \E b \in BottomReports, r \in RightReports : StartupStep /\ UiChromeSize(b, r)
    \/ StartupStep /\ SessionTimerFire

SpecStartup == InitStartup /\ [][NextStartup]_vars

\* ------------------------------------------------------- sessions over time
\* title seeds: empty, blank, one with whitespace runs, one longer than the limit
BlankSeed == <<" ", " ">>
ShortSeed == <<" ", "a", " ", " ", "b", " ">>
LongSeed  == <<" ", " ">> \o [i \in 1..TitleLimit |-> "a"] \o <<"b">>
TitleSeeds == {<< >>, BlankSeed, ShortSeed, LongSeed}

\* a store whose one session is pinned
PinnedStore == StoredDoc(1, << >>, <<1>>)

InitSessions ==
    /\ state \in {getDefaultSessionState, PinnedStore}
    /\ nextId = Cardinality(DOMAIN state.items)
    /\ InitProcess

\* Date.now() advances
Tick ==
    /\ now < MaxClock
    /\ now' = now + 1
    /\ UNCHANGED <<phase, state, views, websites, detached, browserViewsInitialized,
                   didFinishLoadPending, sessionLayoutTimer, postSendLayoutTimer, pendingSends,
                   geometry, nextId, nOpens, nCloses, lastOp, activeChanged, startupNotice,
                   submitActive>>

SessionStep == steps < MaxSessionSteps /\ steps' = steps + 1

NextSessions ==
    \/ SessionStep /\ Startup
    \/ SessionStep /\ Tick
    \/ \E t \in TitleSeeds : SessionStep /\ SessionsCreate(t)
    \/ \E t \in TitleSeeds : SessionStep /\ SendPrompt(t)
    \/ \E t \in TitleSeeds : SessionStep /\ SendResume(t)
    \/ \E t \in TitleSeeds : SessionStep /\ HotkeyCapture(t)
    \/ \E id \in SessionIds : SessionStep /\ SessionsOpen(id)
    \/ \E id \in SessionIds, tabs \in LayoutInputs : SessionStep /\ SessionsSaveLayout(id, tabs)
    \/ \E id \in SessionIds, t \in RenameTitles : SessionStep /\ SessionsRename(id, t)
    \/ \E id \in SessionIds : SessionStep /\ SessionsDelete(id)
    \/ \E mode \in {"default", "empty"} : SessionStep /\ ContextNew(mode)

SpecSessions == InitSessions /\ [][NextSessions]_vars

\* ------------------------------------------------- the store write can fail
\* sessionStore.set writes the file synchronously and throws when the write
\* fails; the file, and with it every later getSessionState, is unchanged.
\* Each action below is a handler run in which setSessionState throws.
\* lastOp.ok is FALSE when the exception leaves the handler (the invoke promise
\* of the caller rejects) and TRUE when the handler catches it.

\* what a handler leaves when its write throws and nothing after the write runs
WriteFails(ch, caught) ==
    /\ phase = "running"
    /\ lastOp' = Op(ch, caught, NoId)
    /\ activeChanged' = NoNotice
    /\ UNCHANGED <<state, nextId, views, websites, sessionLayoutTimer, postSendLayoutTimer,
                   pendingSends, submitActive, sessionFrame, detached>>

\* sessions:create: no try around setSessionState
SessionsCreateWriteFails(title) == WriteFails("sessions:create", FALSE)

\* sessions:open: the layout exists, setSessionState throws before restoreLayout
SessionsOpenWriteFails(id) ==
    /\ ~openRejects(state, id)
    /\ WriteFails("sessions:open", FALSE)

\* sessions:rename of a known id
SessionsRenameWriteFails(id, title) ==
    /\ ~renameRejects(state, id)
    /\ WriteFails("sessions:rename", FALSE)

\* sessions:delete
SessionsDeleteWriteFails(id) == WriteFails("sessions:delete", FALSE)

\* sessions:save-layout of a known id
SessionsSaveLayoutWriteFails(id, tabs) ==
    /\ ~saveLayoutRejects(state, id)
    /\ WriteFails("sessions:save-layout", FALSE)

\* context:new: setSessionState throws before restoreLayout
ContextNewWriteFails(mode) == WriteFails("context:new", FALSE)

\* the debounced save with an active session: saveActiveLayoutSnapshot catches and warns
SessionTimerWriteFails ==
    /\ phase = "running"
    /\ sessionLayoutTimer
    /\ state.activeId # NoId
    /\ sessionLayoutTimer' = FALSE
    /\ lastOp' = Op("save-timer", TRUE, NoId) /\ activeChanged' = NoNotice
    /\ UNCHANGED <<state, nextId, views, websites, postSendLayoutTimer, pendingSends,
                   submitActive, sessionFrame, detached>>

\* a navigation event with an active session: the update listener catches
DidNavigateWriteFails(i, url) ==
    /\ phase = "running"
    /\ i \in 1..Len(views)
    /\ state.activeId # NoId
    /\ views' = [views EXCEPT ![i].url = url]
    /\ lastOp' = Op("did-navigate", TRUE, NoId) /\ activeChanged' = NoNotice
    /\ UNCHANGED <<state, nextId, websites, sessionLayoutTimer, postSendLayoutTimer,
                   pendingSends, submitActive, sessionFrame, detached>>

StoreStep == steps < MaxStoreSteps /\ steps' = steps + 1

NextStore ==
    \/ StoreStep /\ Startup
    \/ \E t \in Prompts : StoreStep /\ SessionsCreate(t)
    \/ \E t \in Prompts : StoreStep /\ SessionsCreateWriteFails(t)
    \/ \E id \in SessionIds : StoreStep /\ SessionsOpen(id)
    \/ \E id \in SessionIds : StoreStep /\ SessionsOpenWriteFails(id)
    \/ \E id \in SessionIds, t \in RenameTitles : StoreStep /\ SessionsRename(id, t)
    \/ \E id \in SessionIds, t \in RenameTitles : StoreStep /\ SessionsRenameWriteFails(id, t)
    \/ \E id \in SessionIds : StoreStep /\ SessionsDelete(id)
    \/ \E id \in SessionIds : StoreStep /\ SessionsDeleteWriteFails(id)
    \/ \E id \in SessionIds, tabs \in LayoutInputs : StoreStep /\ SessionsSaveLayout(id, tabs)
    \/ \E id \in SessionIds, tabs \in LayoutInputs : StoreStep /\ SessionsSaveLayoutWriteFails(id, tabs)
    \/ \E mode \in {"default", "empty"} : StoreStep /\ ContextNew(mode)
    \/ \E mode \in {"default", "empty"} : StoreStep /\ ContextNewWriteFails(mode)
    \/ \E p \in ToggleProviders : StoreStep /\ OpenProvider(p)
    \/ \E i \in 1..MaxPanes, u \in NavUrls : StoreStep /\ DidNavigate(i, u)
    \/ \E i \in 1..MaxPanes, u \in NavUrls : StoreStep /\ DidNavigateWriteFails(i, u)
    \/ StoreStep /\ SessionTimerFire
    \/ StoreStep /\ SessionTimerWriteFails

SpecStore == Init /\ [][NextStore]_vars

\* ------------------------------------------------- window resize and move
\* The window is resized and moved with panes restored from a stored document.
\* The sizes, the chrome and the timer take finitely many values, so these
\* behaviours need no bound on their length.
ResizeStep == UNCHANGED steps

NextResize ==
    \/ ResizeStep /\ Startup
    \/ \E w \in WindowWidths, h \in WindowHeights : ResizeStep /\ WindowResize(w, h)
    \/ ResizeStep /\ WindowMove
    \/ ResizeStep /\ ResizeTimeoutFire
    \/ \E r \in BottomReports : ResizeStep /\ PromptAreaSize(r)

SpecResize == InitStartup /\ [][NextResize]_vars

\* =================================================================== claims

\* the steps that run restoreLayout, with the tabs and the map they hand to it
Providers(vs) == ProvidersOf(getCurrentTabsSnapshot(vs))

\* C1: in every reachable state the persisted document is keyed consistently:
\* activeId is null or a key of items, every id of order and pinned is a key of
\* items, and items and layouts have the same keys.
C1_KeysConsistent ==
    /\ state.activeId = NoId \/ state.activeId \in DOMAIN state.items
    /\ \A i \in 1..Len(state.order) : state.order[i] \in DOMAIN state.items
    /\ \A i \in 1..Len(state.pinned) : state.pinned[i] \in DOMAIN state.items
    /\ DOMAIN state.items = DOMAIN state.layouts

\* a session was deleted, and afterwards a save timer or a navigation event wrote
\* the layout of the session that is active now
C1_Witness ==
    /\ lastOp.ch \in {"save-timer", "post-send-timer", "did-navigate"}
    /\ nextId > Cardinality(DOMAIN state.items)
    /\ state.activeId # NoId
    /\ state.layouts[state.activeId].last # EmptyMap

\* C2: immediately after sessions:open of a known id succeeds, the live panes are
\* one pane per saved tab of that session, in tab order, with the providers of the
\* saved tabs.
C2_OpenShowsSavedTabs ==
    [][\A id \in SessionIds :
          (SessionsOpen(id) /\ id \in DOMAIN state.layouts)
          => Providers(views') = ProvidersOf(state.layouts[id].tabs)]_vars

\* C3: restoreLayout opens every saved tab at lastUrlByProvider[provider] if that is
\* non-empty, else at tab.url if non-empty, else at the registry base URL of a
\* registered provider, else at the raw tab.url.
C3_Expected(tab, last) ==
    IF tab.provider \in DOMAIN last /\ last[tab.provider] # EmptyUrl THEN last[tab.provider]
    ELSE IF tab.url # EmptyUrl THEN tab.url
    ELSE IF tab.provider \in RegisteredProviders THEN PROVIDER_BASE_URL[tab.provider]
    ELSE tab.url

C3_OpenedAt(vs, tabs, last) ==
    /\ Len(vs) = Len(tabs)
    /\ \A i \in 1..Len(tabs) : vs[i].id = C3_Expected(tabs[i], last)

C3_RestorePrecedence ==
    [][/\ \A id \in SessionIds :
            (SessionsOpen(id) /\ id \in DOMAIN state.layouts)
            => C3_OpenedAt(views', state.layouts[id].tabs, state.layouts[id].last)
       /\ (Startup /\ browserViewsInitialized')
            => C3_OpenedAt(views', state'.layouts[state'.activeId].tabs,
                           state'.layouts[state'.activeId].last)
       /\ \A mode \in {"default", "empty"} :
            ContextNew(mode) => C3_OpenedAt(views', contextNewTabs(mode, views), EmptyMap)
       /\ \A t \in Prompts :
            HotkeyCapture(t) => C3_OpenedAt(views', state'.layouts[state'.activeId].tabs, EmptyMap)
      ]_vars

\* a session was opened whose tab has a URL and whose map has another URL for the
\* tab's provider: the pane shows the map's URL
C3_Witness ==
    /\ lastOp = Op("sessions:open", TRUE, NoId)
    /\ \E i \in 1..Len(views) :
          LET l == state.layouts[state.activeId] IN
          /\ i <= Len(l.tabs)
          /\ l.tabs[i].url # EmptyUrl
          /\ l.tabs[i].provider \in DOMAIN l.last
          /\ l.last[l.tabs[i].provider] # l.tabs[i].url
          /\ views[i].id = l.last[l.tabs[i].provider]

\* C4: sessions:delete removes the id from items, layouts, order and pinned in one
\* write; activeId becomes null if it was the deleted id and is unchanged otherwise;
\* every other session's metadata and layout is unchanged.
C4_DeleteEffect ==
    [][\A id \in SessionIds :
          SessionsDelete(id) =>
            /\ DOMAIN state'.items = DOMAIN state.items \ {id}
            /\ DOMAIN state'.layouts = DOMAIN state.layouts \ {id}
            /\ ~InSeq(state'.order, id)
            /\ ~InSeq(state'.pinned, id)
            /\ state'.order = SelectSeq(state.order, LAMBDA x : x # id)
            /\ state'.activeId = (IF state.activeId = id THEN NoId ELSE state.activeId)
            /\ \A o \in DOMAIN state.items \ {id} :
                  state'.items[o] = state.items[o] /\ state'.layouts[o] = state.layouts[o]
      ]_vars

\* the active session was deleted while another session exists: none is active
C4_Witness ==
    /\ lastOp.ch = "sessions:delete"
    /\ state.activeId = NoId
    /\ nextId > Cardinality(DOMAIN state.items)
    /\ DOMAIN state.items # {}

\* C5: restoreLayout(tabs, lastUrlByProvider) of a stored layout followed by a
\* snapshot yields the providers of tabs in the same order, and restoring that
\* snapshot again yields the same provider sequence.
C5_Same(vs, ws, tabs, last) ==
    LET snap == getCurrentTabsSnapshot(vs) IN
    /\ ProvidersOf(snap) = ProvidersOf(tabs)
    /\ Providers(restoreLayout(PM(vs, ws), snap, last).views) = ProvidersOf(snap)

C5_RoundTrip ==
    [][/\ \A id \in SessionIds :
            (SessionsOpen(id) /\ id \in DOMAIN state.layouts)
            => C5_Same(views', websites', state.layouts[id].tabs, state.layouts[id].last)
       /\ (Startup /\ browserViewsInitialized')
            => C5_Same(views', websites', state'.layouts[state'.activeId].tabs,
                       state'.layouts[state'.activeId].last)
      ]_vars

\* C6: the number of live panes equals the number of opens minus the number of
\* closes that targeted a tracked pane; a close of a pane that is not tracked
\* changes nothing.
C6_PaneCount ==
    /\ Len(views) = nOpens - nCloses
    /\ [][/\ Len(views') = nOpens' - nCloses'
           /\ \A h \in PaneHandles :
                (RemovePane(h) /\ IndexOfView(views, h) = 0)
                => UNCHANGED <<views, websites, nOpens, nCloses>>
          ]_vars

\* a pane that was already closed was closed again while other panes were live
C6_Witness ==
    /\ lastOp = Op("removeBrowserView", FALSE, NoId)
    /\ detached # {}
    /\ Len(views) >= 1
    /\ nCloses >= 1

\* C7: after a relayout, a second relayout with unchanged inputs leaves every pane
\* rectangle as it is, and the pane widths sum to at most the available width.
RECURSIVE SumWidths(_)
SumWidths(vs) == IF vs = << >> THEN 0 ELSE Head(vs).rect.width + SumWidths(Tail(vs))

Relaid ==
    \/ lastOp.ch \in {"resize-timer", "sidebar-timer"}
    \/ lastOp.ch \in {"sidebar-size", "prompt-area-size", "ui-chrome-size"} /\ lastOp.ok

C7_RelayoutIdempotentBounded ==
    Relaid =>
      /\ adjustBrowserViewBounds(PM(views, websites)).views = views
      /\ SumWidths(views) <= AvailableWidth

\* two panes were laid out in a width that does not divide evenly
C7_Witness ==
    /\ Relaid
    /\ Len(views) = 2
    /\ AvailableWidth % 2 = 1
    /\ SumWidths(views) = AvailableWidth - 1

\* C8: sessions:open, sessions:save-layout and sessions:rename of an unknown id
\* fail and change nothing: the document, the live panes and the pending save
\* timers are as before.
C8_Unaffected ==
    /\ lastOp'.ok = FALSE
    /\ UNCHANGED <<state, views, websites, sessionLayoutTimer, postSendLayoutTimer>>

C8_UnknownIdNoEffect ==
    [][\A id \in SessionIds :
          id \notin DOMAIN state.items =>
            /\ SessionsOpen(id) => C8_Unaffected
            /\ \A tabs \in LayoutInputs : SessionsSaveLayout(id, tabs) => C8_Unaffected
            /\ \A t \in RenameTitles : SessionsRename(id, t) => C8_Unaffected
      ]_vars

\* an open of an unknown id failed while a session was active, panes were live and
\* a save was pending
C8_Witness ==
    /\ lastOp = Op("sessions:open", FALSE, NoId)
    /\ state.activeId # NoId
    /\ Len(views) > 0
    /\ sessionLayoutTimer

\* C9: a send with no active session creates exactly one session from the current
\* panes, titled from the prompt text, and makes it active before the submit loop
\* runs; a send with an active session creates none.
C9_ImplicitCreate ==
    [][\A t \in Prompts :
          ((SendPrompt(t) /\ Len(t) > 0) \/ SendResume(t)) =>
            IF state.activeId = NoId
            THEN \E new \in SessionIds :
                    /\ new \notin DOMAIN state.items
                    /\ DOMAIN state'.items = DOMAIN state.items \cup {new}
                    /\ state'.activeId = new
                    /\ submitActive' = new
                    /\ state'.items[new].title = TitleFromSeed(t, now)
                    /\ state'.layouts[new].tabs = getCurrentTabsSnapshot(views)
            ELSE /\ DOMAIN state'.items = DOMAIN state.items
                 /\ state'.activeId = state.activeId
                 /\ submitActive' = state.activeId
      ]_vars

\* a send in a fresh context created the session the submit loop ran under,
\* titled with the trimmed prompt, with a pane in its layout
C9_Witness ==
    /\ lastOp.ch = "send-prompt"
    /\ lastOp.created # NoId
    /\ state.activeId = lastOp.created
    /\ submitActive = lastOp.created
    /\ state.items[lastOp.created].title = <<"h", "i">>
    /\ Len(state.layouts[lastOp.created].tabs) > 0

\* C10: a step in which activeId changes from a session id to null is context:new
\* or the deletion of the session that was active.
C10_ClearedOnlyByContextNewOrDelete ==
    [][(state.activeId # NoId /\ state'.activeId = NoId) =>
          \/ \E mode \in {"default", "empty"} : ContextNew(mode)
          \/ SessionsDelete(state.activeId)
      ]_vars

\* context:new cleared the active session while sessions exist
C10_Witness ==
    /\ lastOp.ch = "context:new"
    /\ state.activeId = NoId
    /\ DOMAIN state.items # {}
    /\ Len(views) > 0

\* C11: ensureDefaultSession on a document without sessions leaves exactly one
\* session, present in items, layouts and order, and active; on a document with a
\* session it changes nothing; a second call changes nothing.
C11_BootstrapIdempotent ==
    [][Startup =>
         LET once  == ensureDefaultSession(state, nextId + 1, views, now)
             twice == ensureDefaultSession(once, nextId + 2, views, now)
         IN /\ (DOMAIN state.items = {}) =>
                  \E id \in SessionIds :
                     /\ DOMAIN once.items = {id}
                     /\ DOMAIN once.layouts = {id}
                     /\ once.order = <<id>>
                     /\ once.activeId = id
            /\ (DOMAIN state.items # {}) => once = state
            /\ twice = once
            /\ state'.items = once.items
            /\ state'.layouts = once.layouts
            /\ state'.order = once.order
      ]_vars

\* the process was started again on a store that already held a session
C11_Witness ==
    /\ lastOp = Op("startup", TRUE, NoId)
    /\ DOMAIN state.items # {}
    /\ nextId >= 1

\* C12: the session ensureDefaultSession synthesizes has the providers of the open
\* panes as tabs, or those of the compiled-in default websites when no pane is open.
DefaultProviders == [i \in 1..Len(DefaultWebsites) |-> inferProviderFromUrl(DefaultWebsites[i])]

C12_DefaultTabsOnFirstRun ==
    [][(Startup /\ DOMAIN state.items = {}) =>
          ProvidersOf(state'.layouts[state'.activeId].tabs) =
             (IF views = << >> THEN DefaultProviders ELSE Providers(views))
      ]_vars

\* C13: when the process starts with a restorable active session, the live panes
\* after the startup restore are those of that session's layout in tab order, and
\* neither did-finish-load nor a prompt-area-size or ui-chrome-size report adds a
\* pane or changes the tracked list, in whatever order they arrive.
Restorable == state.activeId # NoId /\ state.activeId \in DOMAIN state.layouts

ViewIdentities(vs) == [i \in 1..Len(vs) |-> <<vs[i].h, vs[i].id>>]

C13_StartupRestoreOnlySource ==
    [][/\ (Startup /\ Restorable') =>
             C3_OpenedAt(views', state'.layouts[state'.activeId].tabs,
                         state'.layouts[state'.activeId].last)
       /\ (/\ phase = "running"
           /\ Restorable
           /\ \/ DidFinishLoad
              \/ \E r \in BottomReports : PromptAreaSize(r)
              \/ \E b \in BottomReports, r \in RightReports : UiChromeSize(b, r))
          => /\ ViewIdentities(views') = ViewIdentities(views)
             /\ websites' = websites
      ]_vars

\* a stored two-tab session was restored, a chrome report arrived, and then the
\* main window finished loading: the two restored panes are the live panes
C13_Witness ==
    /\ lastOp = Op("did-finish-load", TRUE, NoId)
    /\ Restorable
    /\ promptAreaHeight > 0
    /\ Len(views) = 2
    /\ Len(state.layouts[state.activeId].tabs) = 2

\* C14: at startup, when the stored activeId is null or names no session while a
\* session exists, the first pinned session, else the first session of order,
\* becomes the stored activeId and its layout is restored.
C14_StartupFallback ==
    [][(/\ Startup
        /\ DOMAIN state.items # {}
        /\ state.activeId = NoId \/ state.activeId \notin DOMAIN state.items)
       => LET fallback == IF Len(state.pinned) > 0 THEN state.pinned[1] ELSE state.order[1]
          IN /\ state'.activeId = fallback
             /\ C3_OpenedAt(views', state.layouts[fallback].tabs, state.layouts[fallback].last)
      ]_vars

\* the session a step has created
CreatedIn(id) == id \in DOMAIN state'.items /\ id \notin DOMAIN state.items

\* a send that finds no active session
SendCreates(t) == state.activeId = NoId /\ ((SendPrompt(t) /\ Len(t) > 0) \/ SendResume(t))

\* C15 (as amended): the title of a session that createNewSession makes from a seed
\* (implicit creation on send, hotkey capture) is the seed without surrounding
\* white space and with inner runs of white space collapsed, cut to its first 80
\* characters; a blank seed gives the timestamp title.
C15_Clean(s) ==
    LET kept == SelectSeq([i \in 1..Len(s) |-> i],
                          LAMBDA i : \/ ~IsSpace(s[i])
                                     \/ /\ i > 1
                                        /\ ~IsSpace(s[i - 1])
                                        /\ \E j \in (i + 1)..Len(s) : ~IsSpace(s[j]))
    IN [k \in 1..Len(kept) |-> IF IsSpace(s[kept[k]]) THEN " " ELSE s[kept[k]]]

C15_Titled(seed) ==
    \E id \in SessionIds :
       /\ CreatedIn(id)
       /\ LET title == state'.items[id].title
              clean == C15_Clean(seed)
          IN /\ Len(title) <= TitleLimit
             /\ IF clean = << >> THEN title = DefaultTitle(now)
                ELSE IF Len(clean) <= TitleLimit THEN title = clean
                ELSE title = SubSeq(clean, 1, TitleLimit)

C15_SeedTitle ==
    [][\A t \in TitleSeeds : (SendCreates(t) \/ HotkeyCapture(t)) => C15_Titled(t)]_vars

\* C15 (as stated): the same for every entry point that takes a seed, explicit
\* create included.
C15_SeedTitleEveryEntryPoint ==
    [][\A t \in TitleSeeds :
          (SendCreates(t) \/ HotkeyCapture(t) \/ SessionsCreate(t)) => C15_Titled(t)]_vars

\* a send in a fresh context with a seed longer than the limit made a session whose
\* title has exactly 80 characters
C15_Witness ==
    /\ lastOp.ch = "send-prompt"
    /\ lastOp.created # NoId
    /\ Len(state.items[lastOp.created].title) = TitleLimit

\* C16: sessions:rename of a known id with a blank title leaves the title as it
\* was and sets updatedAt; with a non-blank title the stored title is the trimmed
\* title; no other session, no layout, and nothing else of the document changes.
C16_Blank(t) == \A i \in 1..Len(t) : IsSpace(t[i])

C16_IsTrimOf(r, t) ==
    \E i \in 1..Len(t) : \E j \in i..Len(t) :
       /\ r = SubSeq(t, i, j)
       /\ ~IsSpace(t[i]) /\ ~IsSpace(t[j])
       /\ \A k \in 1..(i - 1) : IsSpace(t[k])
       /\ \A k \in (j + 1)..Len(t) : IsSpace(t[k])

C16_RenameEffect ==
    [][\A id \in SessionIds : \A t \in RenameTitles :
          (SessionsRename(id, t) /\ id \in DOMAIN state.items) =>
            /\ IF C16_Blank(t) THEN state'.items[id].title = state.items[id].title
               ELSE C16_IsTrimOf(state'.items[id].title, t)
            /\ state'.items[id].updatedAt = now
            /\ state'.items[id].createdAt = state.items[id].createdAt
            /\ DOMAIN state'.items = DOMAIN state.items
            /\ \A o \in DOMAIN state.items \ {id} : state'.items[o] = state.items[o]
            /\ state'.layouts = state.layouts
            /\ state'.order = state.order
            /\ state'.pinned = state.pinned
            /\ state'.activeId = state.activeId
      ]_vars

\* a session with a title made from a prompt was renamed to a blank title later:
\* it kept its title and its updatedAt moved
C16_Witness ==
    /\ lastOp = Op("sessions:rename", TRUE, NoId)
    /\ \E id \in DOMAIN state.items :
          /\ state.items[id].title = <<"a", " ", "b">>
          /\ state.items[id].updatedAt > state.items[id].createdAt
          /\ state.items[id].updatedAt = now

C18_Listed ==
    LET l == sessionsList(state).items
        n == Len(state.pinned)
    IN /\ Len(l) = Cardinality(DOMAIN state.items)
       /\ SeqRange(l) = DOMAIN state.items
       /\ SubSeq(l, 1, n) = state.pinned
       /\ \A i \in (n + 1)..Len(l) : \A j \in (i + 1)..Len(l) :
             /\ l[i] > l[j]
             /\ state.items[l[i]].createdAt >= state.items[l[j]].createdAt
       /\ sessionsList(state).activeId = state.activeId

C18_ListOrder ==
    /\ C18_Listed
    /\ [][/\ C18_Listed'
           /\ \A id \in SessionIds :
                (\/ SessionsOpen(id)
                 \/ \E t \in RenameTitles : SessionsRename(id, t)
                 \/ \E tabs \in LayoutInputs : SessionsSaveLayout(id, tabs))
                => sessionsList(state').items = sessionsList(state).items
          ]_vars

\* the older of two sessions was opened at a later time and stays second in the list
C18_Witness ==
    /\ lastOp = Op("sessions:open", TRUE, NoId)
    /\ now > 0
    /\ Len(state.order) = 2
    /\ state.activeId = state.order[2]
    /\ sessionsList(state).items = state.pinned \o state.order

\* C19: context:new sets activeId to null and changes no session; in mode "empty"
\* no pane is live afterwards; in mode "default" the panes afterwards have the
\* provider sequence of the panes before, each at its provider's base URL.
C19_FreshContext ==
    [][\A mode \in {"default", "empty"} :
          ContextNew(mode) =>
            /\ state'.activeId = NoId
            /\ state'.items = state.items
            /\ state'.layouts = state.layouts
            /\ state'.order = state.order
            /\ state'.pinned = state.pinned
            /\ (mode = "empty") => views' = << >>
            /\ (mode = "default") =>
                  /\ Providers(views') = Providers(views)
                  /\ \A i \in 1..Len(views') :
                        Providers(views)[i] \in RegisteredProviders
                        => views'[i].id = PROVIDER_BASE_URL[Providers(views)[i]]
      ]_vars

\* C20: while no session is active, a save timer firing, a pane open or close
\* request and a navigation event leave the persisted document unchanged.
C20_NoActiveNoWrite ==
    [][(/\ state.activeId = NoId
        /\ \/ SessionTimerFire
           \/ PostSendTimerFire
           \/ \E p \in ToggleProviders : OpenProvider(p) \/ CloseProvider(p)
           \/ \E i \in 1..MaxPanes, u \in NavUrls : DidNavigate(i, u))
       => state' = state
      ]_vars

\* with sessions stored and none active, a pane that had navigated was closed
C20_Witness ==
    /\ lastOp = Op("close-provider", TRUE, NoId)
    /\ state.activeId = NoId
    /\ DOMAIN state.items # {}
    /\ sessionLayoutTimer

\* C21: a failing store write never surfaces to the caller: whenever a session
\* operation (create, open, rename, delete, save-layout, fresh context,
\* debounced save, navigation update) fails for its caller, the session id it
\* was given is unknown.
C21_OnlyNotFoundSurfaces ==
    [][/\ \A t \in Prompts :
            (SessionsCreate(t) \/ SessionsCreateWriteFails(t)) => lastOp'.ok
       /\ \A id \in SessionIds :
            ((SessionsOpen(id) \/ SessionsOpenWriteFails(id)) /\ ~lastOp'.ok)
            => openRejects(state, id)
       /\ \A id \in SessionIds, t \in RenameTitles :
            ((SessionsRename(id, t) \/ SessionsRenameWriteFails(id, t)) /\ ~lastOp'.ok)
            => renameRejects(state, id)
       /\ \A id \in SessionIds :
            (SessionsDelete(id) \/ SessionsDeleteWriteFails(id)) => lastOp'.ok
       /\ \A id \in SessionIds, tabs \in LayoutInputs :
            ((SessionsSaveLayout(id, tabs) \/ SessionsSaveLayoutWriteFails(id, tabs)) /\ ~lastOp'.ok)
            => saveLayoutRejects(state, id)
       /\ \A mode \in {"default", "empty"} :
            (ContextNew(mode) \/ ContextNewWriteFails(mode)) => lastOp'.ok
       /\ (SessionTimerFire \/ SessionTimerWriteFails) => lastOp'.ok
       /\ \A i \in 1..MaxPanes, u \in NavUrls :
            (DidNavigate(i, u) \/ DidNavigateWriteFails(i, u)) => lastOp'.ok
      ]_vars

\* the session that was active before the step has, after it, saved tabs with the
\* providers of the panes that were live before the step
C22_Saved(a) ==
    /\ a \in DOMAIN state'.layouts
    /\ ProvidersOf(state'.layouts[a].tabs) = Providers(views)

\* C22: a switch away from the active session (sessions:open of another
\* session, createNewSession with the default layout, context:new) leaves that
\* session's saved tabs equal, provider by provider, to the panes that were live
\* when the switch began, also while the debounced save is still pending.
C22_SavedBeforeSwitch ==
    [][(state.activeId # NoId /\ state.activeId \in DOMAIN state.items) =>
         /\ \A id \in SessionIds :
               (SessionsOpen(id) /\ ~openRejects(state, id) /\ id # state.activeId)
               => C22_Saved(state.activeId)
         /\ \A t \in Prompts : HotkeyCapture(t) => C22_Saved(state.activeId)
         /\ \A mode \in {"default", "empty"} : ContextNew(mode) => C22_Saved(state.activeId)
      ]_vars

\* tab i written by the save is the merge of pane i with the tabs saved before
C23_Merged(prev, next, i) ==
    LET p == inferProviderFromUrl(views[i].url) IN
    /\ next[i].provider = p
    /\ IF \E j \in 1..Len(prev) : prev[j].provider = p
       THEN \E j \in 1..Len(prev) :
               /\ prev[j].provider = p
               /\ next[i].url = prev[j].url
               /\ next[i].zoom = prev[j].zoom
       ELSE /\ next[i].zoom = 1
            /\ next[i].url = IF p \in RegisteredProviders THEN PROVIDER_BASE_URL[p]
                             ELSE views[i].url

\* C23: saveActiveLayoutSnapshot with an active session writes one tab per live
\* pane, in pane order, with the pane's provider; a provider that had a saved
\* tab keeps that tab's url and zoom; a provider that had none gets its registry
\* base URL, or the pane's current URL when it is not registered; tabs of
\* providers with no live pane are dropped.
C23_MergePolicy ==
    [][((SessionTimerFire \/ PostSendTimerFire) /\ state.activeId # NoId) =>
         LET prev == LayoutOr(state, state.activeId).tabs
             next == state'.layouts[state.activeId].tabs
         IN /\ Len(next) = Len(views)
            /\ \A i \in 1..Len(next) : C23_Merged(prev, next, i)
      ]_vars

\* a save has kept the empty url of a saved tab whose pane shows a page
C23_Witness ==
    /\ lastOp.ch = "save-timer"
    /\ state.activeId # NoId
    /\ state.activeId \in DOMAIN state.layouts
    /\ LET tabs == state.layouts[state.activeId].tabs
       IN /\ Len(tabs) = Len(views)
          /\ \E i \in 1..Len(tabs) : tabs[i].url = EmptyUrl /\ views[i].url # EmptyUrl

\* C24: right after saveActiveLayoutSnapshot has run, and right after a
\* navigation event of a live pane has been handled, the active session's
\* lastUrlByProvider has, for every live pane, the pane's current URL under the
\* pane's provider, and the entries of providers with no live pane are as before.
C24_LiveTruth ==
    [][((SessionTimerFire \/ PostSendTimerFire
           \/ \E i \in 1..MaxPanes, u \in NavUrls : DidNavigate(i, u))
        /\ state.activeId # NoId) =>
         LET before == LayoutOr(state, state.activeId).last
             after  == state'.layouts[state.activeId].last
             live   == {inferProviderFromUrl(views'[i].url) : i \in 1..Len(views')}
         IN /\ \A i \in 1..Len(views') :
                  LET p == inferProviderFromUrl(views'[i].url)
                  IN p \in DOMAIN after /\ after[p] = views'[i].url
            /\ \A p \in DOMAIN before \ live :
                  p \in DOMAIN after /\ after[p] = before[p]
      ]_vars

\* C25: once the window timer has fired after resize and move events, nothing
\* being pending, the pane rectangles are those a relayout computes from the
\* window size as it is now.
C25_RelayoutFollowsResize ==
    (phase = "running" /\ resizeTimeout = "none")
    => views = adjustBrowserViewBounds(PM(views, websites)).views

\* C26: at most one timer is pending per debounce purpose. The layout-save
\* timer, the post-send timer and the window timer are single handles that are
\* cleared before they are set; the second-pass relayout timers of sidebar-size
\* are counted.
C26_OneTimerPerPurpose ==
    sidebarTimers <= 1

\* every session other than a is, after the step, as it was before it
C27_OthersKept(a) ==
    \A id \in DOMAIN state.items \ {a} :
        /\ id \in DOMAIN state'.items /\ state'.items[id] = state.items[id]
        /\ id \in DOMAIN state'.layouts /\ state'.layouts[id] = state.layouts[id]

\* C27: no update of the document is lost by interleaving. A send-prompt handler
\* resumed after its await writes a document computed from the document as it
\* is at the resume: nothing when a session is active, and otherwise the
\* document with one session added and every other session, the pinned list
\* and the rest of the order kept. The timer and navigation callbacks change
\* only the active session's layout and updatedAt.
C27_NoLostUpdate ==
    [][/\ \A t \in Prompts :
            SendResume(t) =>
              IF state.activeId # NoId THEN state' = state
              ELSE /\ C27_OthersKept(NoId)
                   /\ DOMAIN state'.items = DOMAIN state.items \cup {lastOp'.created}
                   /\ state'.order = <<lastOp'.created>> \o state.order
                   /\ state'.pinned = state.pinned
       /\ (SessionTimerFire \/ PostSendTimerFire
             \/ \E i \in 1..MaxPanes, u \in NavUrls : DidNavigate(i, u)) =>
              /\ C27_OthersKept(state.activeId)
              /\ DOMAIN state'.items = DOMAIN state.items
              /\ state'.order = state.order
              /\ state'.pinned = state.pinned
              /\ state'.activeId = state.activeId
      ]_vars

\* a send that awaited the prompt box (its text was empty) has created the
\* second session of the document; the first is still there
C27_Witness ==
    /\ lastOp.ch = "send-prompt"
    /\ lastOp.created # NoId
    /\ state.activeId = lastOp.created
    /\ state.items[lastOp.created].title = DefaultTitle(now)
    /\ Cardinality(DOMAIN state.items) = 2

\* the removal loop of restoreLayout, run on the live panes, leaves no pane
C28_TornDown == RemoveAll(PM(views, websites), views).views = << >>

\* pane i of vs was created for tab i
C28_InTabOrder(vs, tabs, last) ==
    /\ Len(vs) = Len(tabs)
    /\ \A i \in 1..Len(tabs) : vs[i].id = ResolveUrl(tabs[i], last)
    /\ \A i, j \in 1..Len(vs) : vs[i].h = vs[j].h => i = j

\* C28: restoreLayout removes every live pane before it creates the first new
\* one, and creates the new panes in saved tab order, so that pane i of the live
\* list is the pane of tab i; it does so within the step of the handler that
\* calls it (start-up, sessions:open, the hotkey, context:new).
C28_TeardownThenTabOrder ==
    [][/\ \A id \in SessionIds :
            (SessionsOpen(id) /\ ~openRejects(state, id))
            => /\ C28_TornDown
               /\ C28_InTabOrder(views', state.layouts[id].tabs, state.layouts[id].last)
       /\ (Startup /\ browserViewsInitialized')
            => /\ C28_TornDown
               /\ C28_InTabOrder(views', state'.layouts[state'.activeId].tabs,
                                 state'.layouts[state'.activeId].last)
       /\ \A mode \in {"default", "empty"} :
            ContextNew(mode)
            => /\ C28_TornDown
               /\ C28_InTabOrder(views', contextNewTabs(mode, views), EmptyMap)
       /\ \A t \in Prompts :
            HotkeyCapture(t)
            => /\ C28_TornDown
               /\ C28_InTabOrder(views', NewSessionTabs(views, TRUE), EmptyMap)
      ]_vars

\* a layout of two tabs with different URLs was restored
C28_Witness ==
    /\ lastOp.ch \in {"sessions:open", "hotkey", "context:new"}
    /\ lastOp.ok
    /\ Len(views) = 2
    /\ views[1].id # views[2].id

\* C29: createNewSession(seed, false) stores the snapshot of the live panes as
\* the tabs and leaves the panes alone; createNewSession(seed, true) stores one
\* tab per live pane with the pane's provider and an empty url, and after it the
\* live panes are, one to one and in order, the panes of those tabs, each at the
\* base URL of its provider.
C29_CreateLayout ==
    [][/\ \A t \in Prompts :
            ((SendPrompt(t) \/ SendResume(t)) /\ lastOp'.created # NoId)
            => /\ state'.layouts[lastOp'.created].tabs = getCurrentTabsSnapshot(views)
               /\ views' = views
       /\ \A t \in Prompts :
            HotkeyCapture(t)
            => LET tabs == state'.layouts[lastOp'.created].tabs IN
               /\ Len(tabs) = Len(views)
               /\ \A i \in 1..Len(tabs) :
                     /\ tabs[i].provider = Providers(views)[i]
                     /\ tabs[i].url = EmptyUrl
               /\ Len(views') = Len(tabs)
               /\ \A i \in 1..Len(tabs) :
                     /\ Providers(views')[i] = tabs[i].provider
                     /\ tabs[i].provider \in RegisteredProviders
                        => views'[i].id = PROVIDER_BASE_URL[tabs[i].provider]
      ]_vars

\* C30: every step that changes activeId sends a sessions:active-changed
\* message whose payload is the new activeId (null when it was cleared); the
\* start-up restore queues its message for did-finish-load.
C30_ActiveChangeNotified ==
    [][(state'.activeId # state.activeId) =>
          IF Startup THEN startupNotice' = state'.activeId
          ELSE activeChanged' = state'.activeId
      ]_vars

C32_NoNegativeDimension ==
    /\ \A i \in 1..Len(views) :
         /\ views[i].rect.width >= 0
         /\ views[i].rect.height >= 0
         /\ views[i].rect.x >= 0
    /\ adjustBrowserViewBounds(PM(<< >>, << >>)) = PM(<< >>, << >>)
    /\ \A h \in PaneHandles : removeBrowserView(PM(<< >>, << >>), h) = PM(<< >>, << >>)
    /\ \A u \in PaneUrls :
         LET one == addBrowserView(PM(<< >>, << >>), u).views[1].rect IN
         one.width = winW /\ one.height = Max(winH - promptAreaHeight, 0)
    /\ Relaid =>
         \A i \in 1..Len(views) :
           /\ Max(0, sidebarWidth) + Max(0, reservedRight) >= winW => views[i].rect.width = 0
           /\ promptAreaHeight + HEADER_HEIGHT >= winH => views[i].rect.height = 0

\* two panes were relaid while the sidebar alone was wider than the window
C32_Witness ==
    /\ Relaid
    /\ Len(views) = 2
    /\ sidebarWidth >= winW
    /\ winW > 0
    /\ views[1].rect.width = 0
    /\ views[2].rect.width = 0

\* a pane was relaid in a window lower than the header strip
C32_WitnessHeight ==
    /\ Relaid
    /\ Len(views) >= 1
    /\ winH < HEADER_HEIGHT
    /\ views[1].rect.height = 0

\* C33: lastUrlByProvider of a session is only written with the URL of a pane
\* that is live while that session is active: whenever a step gives an entry of
\* a stored session a new value, that session is the active one and the value
\* is the URL of a pane live before or after the step. An event of a pane that
\* was already closed writes nothing.
C33_OnlyLivePaneUrls ==
    [][\A id \in (DOMAIN state.layouts) \cap (DOMAIN state'.layouts) :
         \A p \in DOMAIN state'.layouts[id].last :
           (p \notin DOMAIN state.layouts[id].last
              \/ state.layouts[id].last[p] # state'.layouts[id].last[p])
           => /\ id = state'.activeId
              /\ \/ \E i \in 1..Len(views)  : views[i].url  = state'.layouts[id].last[p]
                 \/ \E i \in 1..Len(views') : views'[i].url = state'.layouts[id].last[p]
      ]_vars

\* the handles of the views vs, in order
C34_Handles(vs) == [j \in 1..Len(vs) |-> vs[j].h]

\* C34: a close request for provider p removes a pane only if the provider of
\* that pane's current URL is p: exactly one such pane is removed when one is
\* live, nothing is removed when none is live, and the pane of another provider
\* is never removed, whatever URL it was created with.
C34_ClosesOnlyOwnProvider ==
    [][\A p \in ToggleProviders :
         CloseProvider(p) =>
           LET own == {i \in 1..Len(views) : Providers(views)[i] = p} IN
           IF own = {}
           THEN C34_Handles(views') = C34_Handles(views)
           ELSE \E i \in own : C34_Handles(views') = C34_Handles(RemoveAt(views, i))
      ]_vars

\* C35: in every reachable state at most one live pane belongs to each provider
\* (the provider of the pane's current URL), for every interleaving of open and
\* close requests, navigations and restores.
C35_OnePanePerProvider ==
    \A i \in 1..Len(views), j \in 1..Len(views) :
      i # j => Providers(views)[i] # Providers(views)[j]

\* C36: for every stored session and every key p of its lastUrlByProvider, the
\* provider inferred from the stored URL is p.
C36_KeyedByOwnProvider ==
    \A id \in DOMAIN state.layouts :
      \A p \in DOMAIN state.layouts[id].last :
        inferProviderFromUrl(state.layouts[id].last[p]) = p

\* a session is active and nothing is pending: no save timer, no post-send
\* timer, no send in flight
C37_Quiescent ==
    /\ phase = "running"
    /\ state.activeId # NoId
    /\ state.activeId \in DOMAIN state.layouts
    /\ ~sessionLayoutTimer
    /\ ~postSendLayoutTimer
    /\ pendingSends = 0

\* C37: whenever a session is active and the system is quiescent, the active
\* session's saved tabs have the same provider sequence as the live panes.
C37_SavedTabsFollowPanes ==
    C37_Quiescent => ProvidersOf(state.layouts[state.activeId].tabs) = Providers(views)

\* the URL stored for provider p in session a, << >> when there is none
C38_Stored(st, a, p) ==
    IF a \in DOMAIN st.layouts /\ p \in DOMAIN st.layouts[a].last
    THEN st.layouts[a].last[p]
    ELSE EmptyUrl

\* a step that may lie between the close of p and its reopening: a debounced
\* save, the toggle of another provider, a switch to a session
C38_Between(p) ==
    \/ SessionTimerFire
    \/ PostSendTimerFire
    \/ \E q \in ToggleProviders \ {p} : OpenProvider(q) \/ CloseProvider(q)
    \/ \E id \in SessionIds : SessionsOpen(id)

\* the pane that open-p created and close-p would remove is not live
C38_Closed(p) == FindViewById(views, p[1]) = 0

\* no live pane shows a page of provider p
C38_Unshadowed(p) == \A i \in 1..Len(views) : Providers(views)[i] # p

\* resume on reopen, where pre(p) says when the URL stored at the close must
\* be kept: the close stores the URL of the pane it removes under p, the steps
\* in between keep it for every session, and open-p creates the pane at the
\* stored URL, or at the base URL when no session is active
C38_Resume(pre(_)) ==
    \A p \in ToggleProviders :
      LET i == FindViewById(views, p[1]) IN
      /\ (CloseProvider(p) /\ i # 0 /\ state.activeId # NoId)
           => C38_Stored(state', state.activeId, p) = views[i].url
      /\ (C38_Between(p) /\ pre(p))
           => \A a \in DOMAIN state.layouts :
                C38_Stored(state, a, p) # EmptyUrl
                  => C38_Stored(state', a, p) = C38_Stored(state, a, p)
      /\ (OpenProvider(p) /\ C38_Stored(state, state.activeId, p) # EmptyUrl)
           => views'[Len(views')].id = C38_Stored(state, state.activeId, p)
      /\ (OpenProvider(p) /\ state.activeId = NoId)
           => views'[Len(views')].id = PROVIDER_BASE_URL[p]

C39_Replaces ==
    \A id \in SessionIds, tabs \in LayoutInputs :
      (SessionsSaveLayout(id, tabs) /\ id \in DOMAIN state.layouts /\ id # state.activeId)
        => /\ DOMAIN state'.layouts = DOMAIN state.layouts
           /\ state'.layouts[id] = Layout(tabs, EmptyMap)
           /\ \A o \in DOMAIN state.layouts \ {id} : state'.layouts[o] = state.layouts[o]

\* C39, the open: sessions:open of a session that holds a layout given to
\* sessions:save-layout, with the empty lastUrlByProvider it leaves, creates one
\* pane per saved tab, in order, at the tab's url, or at the provider's base URL
\* where that url is empty
C39_OpensAtTabUrls ==
    \A id \in SessionIds :
      (SessionsOpen(id) /\ id \in DOMAIN state.layouts
         /\ state.layouts[id].tabs \in LayoutInputs /\ state.layouts[id].last = EmptyMap)
        => LET tabs == state.layouts[id].tabs IN
           /\ Len(views') = Len(tabs)
           /\ \A i \in 1..Len(tabs) :
                views'[i].id = IF Len(tabs[i].url) > 0 THEN tabs[i].url
                               ELSE PROVIDER_BASE_URL[tabs[i].provider]

\* C39: sessions:save-layout(id, tabs) on a stored session that is not active
\* replaces that session's layout by exactly tabs and discards its
\* lastUrlByProvider, so that the next sessions:open(id) opens each pane at the
\* url of its tab (or at the base URL where that url is empty); the layouts of
\* the other sessions are unchanged.
C39_ExplicitSaveReplaces == [][C39_Replaces /\ C39_OpensAtTabUrls]_vars

\* while one session was active with a live pane, sessions:save-layout gave
\* another stored session the layout <<chatgpt at a conversation URL>>
C39_Witness ==
    /\ lastOp = Op("sessions:save-layout", TRUE, NoId)
    /\ state.activeId \in DOMAIN state.layouts
    /\ Len(views) >= 1
    /\ \E id \in DOMAIN state.layouts \ {state.activeId} :
         state.layouts[id] = Layout(<<Tab(<<"chatgpt">>, ChatUrl, 2)>>, EmptyMap)

====
